---------------------------- MODULE Spec2Model ----------------------------
(***************************************************************************)
(* Ingestion pipeline of lrx-radar: producers push JSON messages onto the  *)
(* raw event queue, processor workers pop them and run process_payload,    *)
(* which upserts threat events by dedupe hash, raises alerts and inserts   *)
(* ATO events and DMARC reports, each message inside its own database      *)
(* session.                                                                *)
(***************************************************************************)
EXTENDS Integers, Sequences, FiniteSets, TLC

(***************************************************************************)
(* Bounds of the model.                                                    *)
(***************************************************************************)
MaxMsgs == 2
MaxTime == 1

Consumers == {1, 2}

(***************************************************************************)
(* JSON values as json.loads delivers them.  t is the Python type of the   *)
(* value, i its integer, s its string, o its dict as a set of <<key,       *)
(* value>> pairs; "absent" stands for a key the object does not have.      *)
(***************************************************************************)
JAbsent == [t |-> "absent", i |-> 0, s |-> "", o |-> {}]
JNull == [t |-> "null", i |-> 0, s |-> "", o |-> {}]
JInt(n) == [t |-> "int", i |-> n, s |-> "", o |-> {}]
JStr(x) == [t |-> "str", i |-> 0, s |-> x, o |-> {}]
JDict(d) == [t |-> "dict", i |-> 0, s |-> "", o |-> d]

EmptyObject ==
  [ f \in
      {"type", "source", "indicator_type", "indicator_value", "category",
       "country", "country_code", "brand_target", "attack_type",
       "primary_target", "volume", "ato_hits", "confidence", "dedupe_hash",
       "event_meta", "occurred_at", "user_email", "loc1", "loc2", "risk_score",
       "action_taken", "created_at", "domain", "reporting_org", "source_ip",
       "disposition", "spf_result", "dkim_result", "msg_count", "report_date",
       "raw_payload"}
    |-> JAbsent ]

\* dict.get(key, default)
Get(payload, key, default) ==
  IF payload[key].t = "absent" THEN default ELSE payload[key]

\* Python truthiness of a JSON value
Truthy(j) ==
  CASE j.t = "absent" -> FALSE
    [] j.t = "null" -> FALSE
    [] j.t = "int" -> j.i # 0
    [] j.t = "str" -> j.s # ""
    [] j.t = "dict" -> j.o # {}

\* str(value)
PyStr(j) ==
  CASE j.t = "str" -> j.s
    [] j.t = "int" -> ToString(j.i)
    [] j.t = "null" -> "None"
    [] OTHER -> "{}"

\* int(value) raises for None, for a dict and for a string that is not a
\* number; the strings drawn as inputs are not numbers.
IntRaises(j) == j.t # "int"

PyInt(j) == j.i

\* hashlib.sha256(...).hexdigest(): injective on the keys of the model
Sha256(key) == "sha256:" \o key

build_dedupe_hash(payload) ==
  Sha256(PyStr(Get(payload, "source", JStr(""))) \o "|"
         \o PyStr(Get(payload, "indicator_type", JStr(""))) \o "|"
         \o PyStr(Get(payload, "indicator_value", JStr(""))) \o "|"
         \o PyStr(Get(payload, "brand_target", JStr(""))) \o "|"
         \o PyStr(Get(payload, "country", JStr(""))) \o "|"
         \o PyStr(Get(payload, "category", JStr(""))))

\* payload.get("dedupe_hash") or build_dedupe_hash(payload)
DedupeHashOf(payload) ==
  IF Truthy(payload["dedupe_hash"])
    THEN PyStr(payload["dedupe_hash"])
    ELSE build_dedupe_hash(payload)

(***************************************************************************)
(* Timestamps.  Time is counted in ticks; IsoTimes gives the value          *)
(* datetime.fromisoformat reads from the well-formed strings of the model, *)
(* every other string makes it raise ValueError.                           *)
(***************************************************************************)
IsoTimes == [s \in {"1970-01-01T00:00:00Z"} |-> 0]

NoTime == -1

\* _safe_datetime: "raise" is an AttributeError leaving the function
\* (value.replace on a value that is not a string)
_safe_datetime(value) ==
  IF ~Truthy(value) THEN [raise |-> FALSE, time |-> NoTime]
  ELSE IF value.t # "str" THEN [raise |-> TRUE, time |-> NoTime]
  ELSE IF value.s \in DOMAIN IsoTimes
    THEN [raise |-> FALSE, time |-> IsoTimes[value.s]]
    ELSE [raise |-> FALSE, time |-> NoTime]

Max(a, b) == IF a >= b THEN a ELSE b

(***************************************************************************)
(* The messages producers put on the queue.  A message is the raw text of  *)
(* one queue entry: text that is not JSON, JSON that is not an object, or  *)
(* a JSON object.                                                          *)
(***************************************************************************)
BasePayload ==
  [EmptyObject EXCEPT
     !["type"] = JStr("threat_event"),
     !["source"] = JStr("seed"),
     !["indicator_type"] = JStr("domain"),
     !["indicator_value"] = JStr("a.com"),
     !["category"] = JStr("Typosquatting"),
     !["country"] = JStr("Russia"),
     !["country_code"] = JStr("RU"),
     !["brand_target"] = JStr("Acme"),
     !["attack_type"] = JStr("Harvesting"),
     !["primary_target"] = JStr("Admins"),
     !["volume"] = JInt(6),
     !["ato_hits"] = JInt(2),
     !["confidence"] = JInt(90),
     !["event_meta"] = JDict({<<"tags", "seed">>})]

ThreatPayloads ==
  << BasePayload,
     [BasePayload EXCEPT !["volume"] = JInt(1), !["confidence"] = JInt(97),
                         !["event_meta"] = JDict({<<"tags", "new">>, <<"mx", "on">>})],
     [BasePayload EXCEPT !["volume"] = JAbsent, !["ato_hits"] = JAbsent,
                         !["confidence"] = JAbsent, !["event_meta"] = JAbsent],
     [BasePayload EXCEPT !["indicator_value"] = JStr("b.com"),
                         !["country"] = JAbsent, !["category"] = JAbsent,
                         !["confidence"] = JInt(85)],
     [BasePayload EXCEPT !["volume"] = JStr("many")],
     [BasePayload EXCEPT !["volume"] = JInt(-3), !["ato_hits"] = JInt(-1)],
     [BasePayload EXCEPT !["confidence"] = JInt(40), !["event_meta"] = JStr("tags")],
     [BasePayload EXCEPT !["dedupe_hash"] = JStr("custom")],
     [BasePayload EXCEPT !["dedupe_hash"] = JStr(build_dedupe_hash(BasePayload)),
                         !["source"] = JStr("feed"),
                         !["indicator_type"] = JStr("url"),
                         !["indicator_value"] = JStr("http://b.com/x"),
                         !["category"] = JStr("Phishing URL"),
                         !["country"] = JStr("Brazil"),
                         !["country_code"] = JStr("BR"),
                         !["brand_target"] = JStr("Bolt"),
                         !["attack_type"] = JStr("Token Theft"),
                         !["primary_target"] = JStr("Finance")],
     [BasePayload EXCEPT !["occurred_at"] = JStr("yesterday")],
     [BasePayload EXCEPT !["occurred_at"] = JInt(1700000000)],
     [BasePayload EXCEPT !["occurred_at"] = JStr("1970-01-01T00:00:00Z")],
     [BasePayload EXCEPT !["source"] = JStr("x|y"), !["indicator_type"] = JStr("z")],
     [BasePayload EXCEPT !["source"] = JStr("x"), !["indicator_type"] = JStr("y|z")],
     [BasePayload EXCEPT !["source"] = JNull] >>

OtherPayloads ==
  << [EmptyObject EXCEPT !["type"] = JStr("ato_event"),
                         !["user_email"] = JStr("j.doe@acme.com"),
                         !["risk_score"] = JInt(91)],
     [EmptyObject EXCEPT !["type"] = JStr("dmarc_report"),
                         !["domain"] = JStr("acme.com"),
                         !["disposition"] = JStr("reject"),
                         !["msg_count"] = JInt(5)],
     [EmptyObject EXCEPT !["type"] = JStr("heartbeat")],
     [EmptyObject EXCEPT !["type"] = JStr("ato_event"),
                         !["risk_score"] = JStr("high")],
     EmptyObject >>

\* The table of messages; a queue entry is an index into it.
MessageTable ==
  [i \in 1..Len(ThreatPayloads) |-> [kind |-> "object", obj |-> ThreatPayloads[i]]]
  \o [i \in 1..Len(OtherPayloads) |-> [kind |-> "object", obj |-> OtherPayloads[i]]]
  \o << [kind |-> "invalid_json", obj |-> EmptyObject],
        [kind |-> "not_object", obj |-> EmptyObject] >>

(***************************************************************************)
(* Rows of the store.                                                      *)
(***************************************************************************)
\* A row as seed_database writes it for the payload, before any message.
SeedThreat ==
  [ id |-> 1,
    source |-> "seed", indicator_type |-> "domain", indicator_value |-> "a.com",
    category |-> "Typosquatting", country |-> "Russia", country_code |-> "RU",
    brand_target |-> "Acme", attack_type |-> "Harvesting",
    primary_target |-> "Admins",
    volume |-> 6, ato_hits |-> 2, confidence |-> 90,
    dedupe_hash |-> build_dedupe_hash(BasePayload),
    event_meta |-> JDict({<<"tags", "seed">>}),
    first_seen |-> 0, last_seen |-> 0, occurred_at |-> 0 ]

\* Columns declared nullable=False receive None: the INSERT fails.
HasNullColumn(payload) ==
  \E col \in {"source", "indicator_type", "indicator_value", "category", "country",
              "country_code", "brand_target", "attack_type", "primary_target"} :
    payload[col].t = "null"

Column(payload, col) ==
  PyStr(Get(payload, col,
            JStr(CASE col = "source" -> "unknown"
                   [] col = "indicator_type" -> "domain"
                   [] col = "indicator_value" -> "unknown"
                   [] col = "country_code" -> "--"
                   [] OTHER -> "Unknown")))

NoRow ==
  [ id |-> 0,
    source |-> "", indicator_type |-> "", indicator_value |-> "",
    category |-> "", country |-> "", country_code |-> "",
    brand_target |-> "", attack_type |-> "", primary_target |-> "",
    volume |-> 0, ato_hits |-> 0, confidence |-> 0,
    dedupe_hash |-> "", event_meta |-> JAbsent,
    first_seen |-> NoTime, last_seen |-> NoTime, occurred_at |-> NoTime ]

(***************************************************************************)
(* upsert_threat_event up to its return: the row it hands to the session   *)
(* (a merged copy of the row it found, or a new row), or the exception     *)
(* that leaves it.  rows is what its SELECT can see, t is utcnow().        *)
(***************************************************************************)
FindEvent(rows, hash) == {r \in rows : r.dedupe_hash = hash}

\* the merge assigns the incoming volume and ato_hits instead of adding them
MergeEvent_overwrite(event, payload, t) ==
  [event EXCEPT
     !.volume = PyInt(Get(payload, "volume", JInt(1))),
     !.ato_hits = PyInt(Get(payload, "ato_hits", JInt(0))),
     !.confidence = Max(@, PyInt(Get(payload, "confidence", JInt(event.confidence)))),
     !.last_seen = t,
     !.occurred_at = t]

\* the merge also takes category and brand_target from the payload
MergeEvent_refresh(event, payload, t) ==
  [event EXCEPT
     !.volume = @ + PyInt(Get(payload, "volume", JInt(1))),
     !.ato_hits = @ + PyInt(Get(payload, "ato_hits", JInt(0))),
     !.confidence = Max(@, PyInt(Get(payload, "confidence", JInt(event.confidence)))),
     !.last_seen = t,
     !.occurred_at = t,
     !.category = Column(payload, "category"),
     !.brand_target = Column(payload, "brand_target")]

MergeEvent(event, payload, t) ==
  LET incoming_meta == Get(payload, "event_meta", JDict({}))
      old_meta == IF Truthy(event.event_meta) THEN event.event_meta ELSE JDict({})
  IN [event EXCEPT
        !.volume = @ + PyInt(Get(payload, "volume", JInt(1))),
        !.ato_hits = @ + PyInt(Get(payload, "ato_hits", JInt(0))),
        !.confidence = Max(@, PyInt(Get(payload, "confidence", JInt(event.confidence)))),
        !.last_seen = t,
        !.occurred_at = t,
        !.event_meta = IF incoming_meta.t = "dict"
                         THEN JDict(incoming_meta.o \cup
                                      {kv \in old_meta.o :
                                         \A n \in incoming_meta.o : n[1] # kv[1]})
                         ELSE @]

MergeRaises(event, payload) ==
  \/ IntRaises(Get(payload, "volume", JInt(1)))
  \/ IntRaises(Get(payload, "ato_hits", JInt(0)))
  \/ IntRaises(Get(payload, "confidence", JInt(event.confidence)))
  \/ /\ Get(payload, "event_meta", JDict({})).t = "dict"
     /\ Truthy(event.event_meta)
     /\ event.event_meta.t # "dict"

NewEvent(payload, hash, t) ==
  LET parsed == _safe_datetime(Get(payload, "occurred_at", JNull))
  IN [ id |-> 0,
       source |-> Column(payload, "source"),
       indicator_type |-> Column(payload, "indicator_type"),
       indicator_value |-> Column(payload, "indicator_value"),
       category |-> Column(payload, "category"),
       country |-> Column(payload, "country"),
       country_code |-> Column(payload, "country_code"),
       brand_target |-> Column(payload, "brand_target"),
       attack_type |-> Column(payload, "attack_type"),
       primary_target |-> Column(payload, "primary_target"),
       volume |-> PyInt(Get(payload, "volume", JInt(1))),
       ato_hits |-> PyInt(Get(payload, "ato_hits", JInt(0))),
       confidence |-> PyInt(Get(payload, "confidence", JInt(50))),
       dedupe_hash |-> hash,
       event_meta |-> Get(payload, "event_meta", JDict({})),
       first_seen |-> NoTime,
       last_seen |-> NoTime,
       occurred_at |-> IF parsed.time # NoTime THEN parsed.time ELSE t ]

NewRaises(payload) ==
  \/ IntRaises(Get(payload, "volume", JInt(1)))
  \/ IntRaises(Get(payload, "ato_hits", JInt(0)))
  \/ IntRaises(Get(payload, "confidence", JInt(50)))
  \/ _safe_datetime(Get(payload, "occurred_at", JNull)).raise

upsert_threat_event(rows, payload, t) ==
  LET hash == DedupeHashOf(payload)
      found == FindEvent(rows, hash)
  IN IF found # {}
       THEN LET event == CHOOSE r \in found : TRUE
            IN [ raise |-> MergeRaises(event, payload), op |-> "update",
                 orig |-> event,
                 row |-> IF MergeRaises(event, payload) THEN event
                         ELSE MergeEvent(event, payload, t) ]
       ELSE [ raise |-> NewRaises(payload), op |-> "insert",
              orig |-> NoRow,
              row |-> IF NewRaises(payload) THEN NoRow
                      ELSE NewEvent(payload, hash, t) ]

(***************************************************************************)
(* create_alert_if_needed: the alerts it adds to the session, given the    *)
(* alerts its SELECT can see.                                              *)
(***************************************************************************)
OpenAlerts(visible, event) ==
  {a \in visible : a.threat_event_id = event.id /\ a.status = "open"}

Severity(confidence) == IF confidence >= 95 THEN "critical" ELSE "high"

\* no look for an alert that is already open
create_alert_if_needed_always(visible, event, alert_id) ==
  IF event.confidence < 85 THEN {}
  ELSE {[ id |-> alert_id,
          threat_event_id |-> event.id,
          severity |-> Severity(event.confidence),
          status |-> "open",
          title |-> event.brand_target \o " targeted by " \o event.category ]}

create_alert_if_needed(visible, event, alert_id) ==
  IF event.confidence < 85 THEN {}
  ELSE IF OpenAlerts(visible, event) # {} THEN {}
  ELSE {[ id |-> alert_id,
          threat_event_id |-> event.id,
          severity |-> Severity(event.confidence),
          status |-> "open",
          title |-> event.brand_target \o " targeted by " \o event.category ]}

\* insert_ato_event and insert_dmarc_report
insert_ato_event(payload, t) ==
  LET parsed == _safe_datetime(Get(payload, "created_at", JNull))
  IN [ id |-> 0,
       user_email |-> PyStr(Get(payload, "user_email", JStr("unknown@unknown.local"))),
       risk_score |-> PyInt(Get(payload, "risk_score", JInt(50))),
       action_taken |-> PyStr(Get(payload, "action_taken", JStr("monitor"))),
       created_at |-> IF parsed.time # NoTime THEN parsed.time ELSE t ]

insert_dmarc_report(payload, t) ==
  [ id |-> 0,
    domain |-> PyStr(Get(payload, "domain", JStr("unknown.local"))),
    disposition |-> PyStr(Get(payload, "disposition", JStr("none"))),
    spf_result |-> PyStr(Get(payload, "spf_result", JStr("fail"))),
    dkim_result |-> PyStr(Get(payload, "dkim_result", JStr("fail"))),
    msg_count |-> PyInt(Get(payload, "msg_count", JInt(1))),
    created_at |-> t ]

\* uuid.uuid4(): an id no row of the table and no open session uses
FreshId(used) == CHOOSE n \in 1..(Cardinality(used) + 1) : n \notin used

(***************************************************************************)
(* State.                                                                  *)
(*   sent           every message pushed so far, in the order of lpush     *)
(*   queue          the indices into sent still on the queue, oldest first *)
(*   outcome        what became of each message                            *)
(*   target         the id of the row each committed threat message was    *)
(*                  written to                                             *)
(*   seeded         whether seed_database filled the store before the      *)
(*                  first message                                          *)
(*   threat_events, alerts, ato_events, dmarc_reports                      *)
(*                  the committed rows of the four tables                  *)
(*   pc, sess       where each processor is in run/process_payload, and    *)
(*                  its open session                                       *)
(*   once           the processor's --once: run leaves its loop after the  *)
(*                  first brpop                                            *)
(*   isolation      what a SELECT of an open transaction sees of commits   *)
(*                  made since the transaction's first read: the database  *)
(*                  behind database_url decides                            *)
(*   now            the clock                                              *)
(***************************************************************************)
VARIABLES sent, queue, outcome, target, threat_events, alerts, ato_events,
          dmarc_reports, pc, sess, isolation, seeded, once, now,
          correlated, matched, certstream, orchestrator, mailbox

vars == <<sent, queue, outcome, target, threat_events, alerts, ato_events,
          dmarc_reports, pc, sess, isolation, seeded, once, now,
          correlated, matched, certstream, orchestrator, mailbox>>

\* The campaign API's calls, the certstream matcher's call and the
\* certstream worker's loop; the processors never touch them.
services == <<correlated, matched, certstream, orchestrator, mailbox>>

\* the processors' variables, which the campaign API and certstream leave alone
pipeline == <<sent, queue, outcome, target, pc, sess, isolation, seeded, once>>

Idle == <<>>

store == <<threat_events, alerts, ato_events, dmarc_reports>>

NoSess ==
  [ msg |-> 0, op |-> "none", row |-> NoRow, orig |-> NoRow,
    rec |-> NoRow, snapshot |-> {}, new_alerts |-> {} ]

Init ==
  /\ sent = <<>>
  /\ queue = <<>>
  /\ outcome = <<>>
  /\ target = <<>>
  /\ seeded \in BOOLEAN
  /\ once = FALSE
  /\ threat_events = IF seeded THEN {SeedThreat} ELSE {}
  /\ alerts = {}
  /\ ato_events = {}
  /\ dmarc_reports = {}
  /\ pc = [c \in Consumers |-> "brpop"]
  /\ sess = [c \in Consumers |-> NoSess]
  /\ isolation \in {"read_committed", "repeatable_read"}
  /\ now = 0
  /\ correlated = Idle
  /\ matched = Idle
  /\ certstream = Idle
  /\ orchestrator = Idle
  /\ mailbox = Idle

\* push_event: lpush of one message
Produce(m) ==
  /\ Len(sent) < MaxMsgs
  /\ sent' = Append(sent, m)
  /\ queue' = Append(queue, Len(sent) + 1)
  /\ outcome' = Append(outcome, "queued")
  /\ target' = Append(target, 0)
  /\ UNCHANGED <<store, pc, sess, isolation, seeded, once, services, now>>

Tick ==
  /\ now < MaxTime
  /\ now' = now + 1
  /\ UNCHANGED <<sent, queue, outcome, target, store, pc, sess, isolation, seeded, once, services>>

\* The head of the queue is what brpop returns to processor c.
Taking(c) ==
  /\ pc[c] = "brpop"
  /\ queue # <<>>

Kind(n) == MessageTable[sent[n]].kind

Payload(n) == MessageTable[sent[n]].obj

EventType(n) == Payload(n)["type"]

IsType(n, name) == EventType(n).t = "str" /\ EventType(n).s = name

\* rollback (or return) and close: back to brpop with nothing written, or
\* out of the loop when run was started with once
Finish(c, n, result) ==
  /\ pc' = [pc EXCEPT ![c] = IF once THEN "returned" ELSE "brpop"]
  /\ sess' = [sess EXCEPT ![c] = NoSess]
  /\ outcome' = [outcome EXCEPT ![n] = result]

\* json.loads raises JSONDecodeError, which run suppresses
ReceiveInvalidJson(c) ==
  /\ Taking(c)
  /\ Kind(Head(queue)) = "invalid_json"
  /\ queue' = Tail(queue)
  /\ Finish(c, Head(queue), "dropped")
  /\ UNCHANGED <<sent, target, store, isolation, seeded, once, services, now>>

\* payload.get on a list, a number, a string or None: the AttributeError
\* leaves process_payload and run
ReceiveNotObject(c) ==
  /\ Taking(c)
  /\ Kind(Head(queue)) = "not_object"
  /\ queue' = Tail(queue)
  /\ pc' = [pc EXCEPT ![c] = "raised"]
  /\ outcome' = [outcome EXCEPT ![Head(queue)] = "raised"]
  /\ UNCHANGED <<sent, target, store, sess, isolation, seeded, once, services, now>>

\* the else branch of process_payload: return without commit
ReceiveOther(c) ==
  /\ Taking(c)
  /\ Kind(Head(queue)) = "object"
  /\ ~IsType(Head(queue), "threat_event")
  /\ ~IsType(Head(queue), "ato_event")
  /\ ~IsType(Head(queue), "dmarc_report")
  /\ queue' = Tail(queue)
  /\ Finish(c, Head(queue), "ignored")
  /\ UNCHANGED <<sent, target, store, isolation, seeded, once, services, now>>

\* upsert_threat_event: SELECT by dedupe hash, then merge or build the row
ReceiveThreat(c) ==
  /\ Taking(c)
  /\ Kind(Head(queue)) = "object"
  /\ IsType(Head(queue), "threat_event")
  /\ queue' = Tail(queue)
  /\ LET n == Head(queue)
         res == upsert_threat_event(threat_events, Payload(n), now)
     IN IF res.raise
          THEN Finish(c, n, "rolled_back")
          ELSE /\ pc' = [pc EXCEPT ![c] = "flush"]
               /\ sess' = [sess EXCEPT ![c] =
                    [NoSess EXCEPT !.msg = n, !.op = res.op, !.row = res.row,
                                   !.orig = res.orig,
                                   !.snapshot = IF isolation = "repeatable_read"
                                                  THEN alerts ELSE {}]]
               /\ outcome' = [outcome EXCEPT ![n] = "processing"]
  /\ UNCHANGED <<sent, target, store, isolation, seeded, once, services, now>>

ReceiveAto(c) ==
  /\ Taking(c)
  /\ Kind(Head(queue)) = "object"
  /\ IsType(Head(queue), "ato_event")
  /\ queue' = Tail(queue)
  /\ LET n == Head(queue)
     IN IF \/ IntRaises(Get(Payload(n), "risk_score", JInt(50)))
           \/ _safe_datetime(Get(Payload(n), "created_at", JNull)).raise
          THEN Finish(c, n, "rolled_back")
          ELSE /\ pc' = [pc EXCEPT ![c] = "commit"]
               /\ sess' = [sess EXCEPT ![c] =
                    [NoSess EXCEPT !.msg = n, !.op = "ato",
                                   !.rec = insert_ato_event(Payload(n), now)]]
               /\ outcome' = [outcome EXCEPT ![n] = "processing"]
  /\ UNCHANGED <<sent, target, store, isolation, seeded, once, services, now>>

ReceiveDmarc(c) ==
  /\ Taking(c)
  /\ Kind(Head(queue)) = "object"
  /\ IsType(Head(queue), "dmarc_report")
  /\ queue' = Tail(queue)
  /\ LET n == Head(queue)
     IN IF IntRaises(Get(Payload(n), "msg_count", JInt(1)))
          THEN Finish(c, n, "rolled_back")
          ELSE /\ pc' = [pc EXCEPT ![c] = "commit"]
               /\ sess' = [sess EXCEPT ![c] =
                    [NoSess EXCEPT !.msg = n, !.op = "dmarc",
                                   !.rec = insert_dmarc_report(Payload(n), now)]]
               /\ outcome' = [outcome EXCEPT ![n] = "processing"]
  /\ UNCHANGED <<sent, target, store, isolation, seeded, once, services, now>>

(***************************************************************************)
(* db.flush(): the INSERT or UPDATE of the threat event reaches the        *)
(* database.  A session that has flushed and not yet committed holds the   *)
(* lock of its row (UPDATE) or of its dedupe hash in the unique index      *)
(* (INSERT); another session's write to the same row or hash waits.        *)
(***************************************************************************)
WaitsFor(c) ==
  \E d \in Consumers \ {c} :
    /\ pc[d] \in {"alert", "commit"} /\ sess[d].op \in {"insert", "update"}
    /\ \/ sess[c].op = "insert" /\ sess[d].row.dedupe_hash = sess[c].row.dedupe_hash
       \/ sess[c].op = "update" /\ sess[d].row.id = sess[c].row.id

\* the table without its unique constraint
UniqueViolation_none(rows, row) == FALSE

\* uq_threat_events_dedupe_hash
UniqueViolation(rows, row) == \E r \in rows : r.dedupe_hash = row.dedupe_hash

FlushInsert(c) ==
  /\ pc[c] = "flush"
  /\ sess[c].op = "insert"
  /\ ~WaitsFor(c)
  /\ IF \/ HasNullColumn(Payload(sess[c].msg))
        \/ UniqueViolation(threat_events, sess[c].row)
       THEN Finish(c, sess[c].msg, "rolled_back")
       ELSE /\ pc' = [pc EXCEPT ![c] = "alert"]
            /\ sess' = [sess EXCEPT ![c].row =
                 [@ EXCEPT !.id = FreshId({r.id : r \in threat_events}
                                                \cup {sess[d].row.id : d \in Consumers}),
                           !.first_seen = now, !.last_seen = now]]
            /\ UNCHANGED outcome
  /\ UNCHANGED <<sent, queue, target, store, isolation, seeded, once, services, now>>

FlushUpdate(c) ==
  /\ pc[c] = "flush"
  /\ sess[c].op = "update"
  /\ ~WaitsFor(c)
  /\ pc' = [pc EXCEPT ![c] = "alert"]
  /\ UNCHANGED <<sent, queue, outcome, target, store, sess, isolation, seeded, once, services, now>>

\* create_alert_if_needed(db, threat)
CreateAlert(c) ==
  /\ pc[c] = "alert"
  /\ pc' = [pc EXCEPT ![c] = "commit"]
  /\ sess' = [sess EXCEPT ![c].new_alerts =
       create_alert_if_needed(
         IF isolation = "repeatable_read" THEN sess[c].snapshot ELSE alerts,
         sess[c].row,
         FreshId({a.id : a \in alerts}
                   \cup UNION {{a.id : a \in sess[d].new_alerts} : d \in Consumers}))]
  /\ UNCHANGED <<sent, queue, outcome, target, store, isolation, seeded, once, services, now>>

(***************************************************************************)
(* db.commit().  The UPDATE of a merge sets the columns whose value the    *)
(* session changed; the others keep what the row holds.  target records    *)
(* the row a committed threat message was written to.                      *)
(***************************************************************************)
\* the merged object is written as one more row
ApplyUpdate_insert(rows, s) == rows \cup {s.row}

ApplyUpdate(rows, s) ==
  { IF r.id = s.row.id
      THEN [col \in DOMAIN r |->
              IF s.row[col] # s.orig[col]
                THEN s.row[col] ELSE r[col]]
      ELSE r : r \in rows }

\* the INSERT of a new indicator is left out of the commit
ApplyWrite_late(rows, s) ==
  CASE s.op = "update" -> ApplyUpdate(rows, s)
    [] OTHER -> rows

\* the INSERT of a new indicator replaces the table's rows
ApplyWrite_replace(rows, s) ==
  CASE s.op = "insert" -> {s.row}
    [] s.op = "update" -> ApplyUpdate(rows, s)
    [] OTHER -> rows

ApplyWrite(rows, s) ==
  CASE s.op = "insert" -> rows \cup {s.row}
    [] s.op = "update" -> ApplyUpdate(rows, s)
    [] OTHER -> rows

Commit(c) ==
  /\ pc[c] = "commit"
  /\ threat_events' = ApplyWrite(threat_events, sess[c])
  /\ alerts' = alerts \cup sess[c].new_alerts
  /\ ato_events' = IF sess[c].op = "ato"
       THEN ato_events \cup {[sess[c].rec EXCEPT !.id = FreshId({r.id : r \in ato_events})]}
       ELSE ato_events
  /\ dmarc_reports' = IF sess[c].op = "dmarc"
       THEN dmarc_reports \cup {[sess[c].rec EXCEPT !.id = FreshId({r.id : r \in dmarc_reports})]}
       ELSE dmarc_reports
  /\ Finish(c, sess[c].msg, "committed")
  /\ target' = [target EXCEPT ![sess[c].msg] = sess[c].row.id]
  /\ UNCHANGED <<sent, queue, isolation, seeded, once, services, now>>

Step(c) ==
  \/ ReceiveInvalidJson(c)
  \/ ReceiveNotObject(c)
  \/ ReceiveOther(c)
  \/ ReceiveThreat(c)
  \/ ReceiveAto(c)
  \/ ReceiveDmarc(c)
  \/ FlushInsert(c)
  \/ FlushUpdate(c)
  \/ CreateAlert(c)
  \/ Commit(c)

\* one processor drains the queue
Next ==
  \/ \E m \in DOMAIN MessageTable : Produce(m)
  \/ Tick
  \/ Step(1)

Spec == Init /\ [][Next]_vars

\* replicated processors: the messages drawn are the first threat payloads,
\* one message of every other type, and the two texts that are not JSON
\* objects
SpecReplicated ==
  Init
    /\ [][ \/ \E m \in (1..5) \cup (Len(ThreatPayloads) + 1 .. Len(ThreatPayloads) + 3)
                          \cup (Len(MessageTable) - 1 .. Len(MessageTable)) : Produce(m)
           \/ Tick
           \/ \E c \in Consumers : Step(c) ]_vars

\* python -m workers.processor --once
InitOnce ==
  /\ sent = <<>>
  /\ queue = <<>>
  /\ outcome = <<>>
  /\ target = <<>>
  /\ seeded \in BOOLEAN
  /\ once = TRUE
  /\ threat_events = IF seeded THEN {SeedThreat} ELSE {}
  /\ alerts = {}
  /\ ato_events = {}
  /\ dmarc_reports = {}
  /\ pc = [c \in Consumers |-> "brpop"]
  /\ sess = [c \in Consumers |-> NoSess]
  /\ isolation \in {"read_committed", "repeatable_read"}
  /\ now = 0
  /\ correlated = Idle
  /\ matched = Idle
  /\ certstream = Idle
  /\ orchestrator = Idle
  /\ mailbox = Idle

\* brpop returns None after its timeout on an empty queue: with once the loop
\* breaks
BrpopTimeout(c) ==
  /\ pc[c] = "brpop"
  /\ queue = <<>>
  /\ once
  /\ pc' = [pc EXCEPT ![c] = "returned"]
  /\ UNCHANGED <<sent, queue, outcome, target, store, sess, isolation, seeded, once, services, now>>

SpecOnce == InitOnce /\ [][Next \/ BrpopTimeout(1)]_vars

(***************************************************************************)
(* Properties.                                                             *)
(***************************************************************************)
ThreatMsgs ==
  {n \in DOMAIN sent : Kind(n) = "object" /\ IsType(n, "threat_event")}

Committed(n) == outcome[n] = "committed"

Finished(n) == outcome[n] \in {"committed", "rolled_back"}

HashOfMsg(n) == DedupeHashOf(Payload(n))

KeyFields ==
  <<"source", "indicator_type", "indicator_value", "brand_target", "country",
    "category">>

\* the six fields of a payload, a missing one read as the empty string
KeyTuple(n) == [k \in 1..6 |-> PyStr(Get(Payload(n), KeyFields[k], JStr("")))]

InputVolume(n) == PyInt(Get(Payload(n), "volume", JInt(1)))

InputAtoHits(n) == PyInt(Get(Payload(n), "ato_hits", JInt(0)))

\* the payload's numbers and columns are such that neither branch of
\* upsert_threat_event can fail on them
WellFormed(n) ==
  /\ ~IntRaises(Get(Payload(n), "volume", JInt(1)))
  /\ ~IntRaises(Get(Payload(n), "ato_hits", JInt(0)))
  /\ ~IntRaises(Get(Payload(n), "confidence", JInt(50)))
  /\ ~HasNullColumn(Payload(n))
  /\ Get(Payload(n), "event_meta", JDict({})).t = "dict"

SamePayloadKey(n1, n2) ==
  /\ KeyTuple(n1) = KeyTuple(n2)
  /\ Payload(n1)["dedupe_hash"] = Payload(n2)["dedupe_hash"]

\* C1: with one processor, no two threat events share a dedupe hash, and
\* every committed threat message has exactly one row with its dedupe hash.
C1_OneRecordPerHash ==
  /\ \A r, q \in threat_events : r.dedupe_hash = q.dedupe_hash => r = q
  /\ \A n \in ThreatMsgs :
       Committed(n) => Cardinality(FindEvent(threat_events, HashOfMsg(n))) = 1

C1_Witness ==
  \E n1, n2 \in ThreatMsgs :
    /\ n1 # n2
    /\ Committed(n1) /\ Committed(n2)
    /\ HashOfMsg(n1) = HashOfMsg(n2)
    /\ Cardinality(FindEvent(threat_events, HashOfMsg(n1))) = 1

\* C2: when exactly two messages with the same six fields have been
\* committed into a store that held no row for them, there is one row, its
\* volume is the sum of the two volumes (1 for a payload without volume)
\* and, when both payloads carry a confidence, its confidence is the larger.
C2_SumAndMax ==
  \A n1, n2 \in ThreatMsgs :
    ( /\ n1 < n2
      /\ Committed(n1) /\ Committed(n2)
      /\ SamePayloadKey(n1, n2)
      /\ ~(seeded /\ HashOfMsg(n1) = SeedThreat.dedupe_hash)
      /\ \A n3 \in ThreatMsgs \ {n1, n2} :
           ~(outcome[n3] = "committed" /\ HashOfMsg(n3) = HashOfMsg(n1)) )
    => /\ Cardinality(FindEvent(threat_events, HashOfMsg(n1))) = 1
       /\ \A r \in FindEvent(threat_events, HashOfMsg(n1)) :
            /\ r.volume = InputVolume(n1) + InputVolume(n2)
            /\ r.ato_hits = InputAtoHits(n1) + InputAtoHits(n2)
            /\ ( Payload(n1)["confidence"].t = "int"
                 /\ Payload(n2)["confidence"].t = "int" )
               => r.confidence = Max(Payload(n1)["confidence"].i,
                                     Payload(n2)["confidence"].i)

C2_Witness ==
  \E n1, n2 \in ThreatMsgs :
    /\ n1 < n2
    /\ Committed(n1) /\ Committed(n2)
    /\ SamePayloadKey(n1, n2)
    /\ ~seeded
    /\ InputVolume(n1) = 6 /\ InputVolume(n2) = 1
    /\ \E r \in threat_events :
         r.dedupe_hash = HashOfMsg(n1) /\ r.volume = 7 /\ r.confidence = 97

\* C3: no step lowers the volume or the ato_hits of a stored threat event.
C3_VolumeNeverDecreases ==
  [][\A r \in threat_events : \A q \in threat_events' :
       q.id = r.id => q.volume >= r.volume /\ q.ato_hits >= r.ato_hits]_vars

FixedColumns ==
  {"source", "indicator_type", "indicator_value", "category", "country",
   "country_code", "brand_target", "attack_type", "primary_target",
   "dedupe_hash", "first_seen"}

\* C4: a step leaves source, indicator_type, indicator_value, category,
\* country, country_code, brand_target, attack_type, primary_target,
\* dedupe_hash and first_seen of every stored threat event as they were.
C4_MergeKeepsCreationFields ==
  [][\A r \in threat_events : \A q \in threat_events' :
       q.id = r.id => \A col \in FixedColumns : q[col] = r[col]]_vars

\* a committed merge of a payload whose fields differ from the row's
C4_Witness ==
  \E n \in ThreatMsgs : \E r \in threat_events :
    /\ Committed(n)
    /\ r.id = target[n]
    /\ r.category # Column(Payload(n), "category")
    /\ r.brand_target # Column(Payload(n), "brand_target")
    /\ r.last_seen # r.first_seen

\* C5: two committed threat messages were written to the same row if and
\* only if their six-field tuples are equal.
C5_SameRowIffSameTuple ==
  \A n1, n2 \in ThreatMsgs :
    (Committed(n1) /\ Committed(n2))
      => ((target[n1] = target[n2]) <=> (KeyTuple(n1) = KeyTuple(n2)))

\* the processors that commit a threat event in the step
CommitsThreat(c) ==
  /\ pc[c] = "commit"
  /\ pc'[c] = "brpop"
  /\ sess[c].op \in {"insert", "update"}

\* C6: with one processor, the commit of a threat message adds an alert if
\* and only if the confidence of the row it wrote is >= 85 and the row had
\* no open alert; the alert is open, belongs to that row and is critical
\* for a confidence >= 95 and high otherwise; no other step adds an alert.
C6_AlertIffNeeded ==
  [][ /\ \A c \in Consumers :
           CommitsThreat(c) =>
             \E r \in threat_events' :
               /\ r.id = target'[sess[c].msg]
               /\ (alerts' # alerts)
                    <=> (r.confidence >= 85 /\ OpenAlerts(alerts, r) = {})
               /\ Cardinality(alerts' \ alerts) <= 1
               /\ \A a \in alerts' \ alerts :
                    /\ a.threat_event_id = r.id
                    /\ a.status = "open"
                    /\ a.severity = IF r.confidence >= 95 THEN "critical" ELSE "high"
      /\ (alerts' # alerts) => \E c \in Consumers : CommitsThreat(c) ]_vars

\* a row with two committed messages and one alert, and a critical alert
C6_Witness ==
  /\ \E r \in threat_events :
       /\ Cardinality({a \in alerts : a.threat_event_id = r.id}) = 1
       /\ Cardinality({n \in ThreatMsgs : Committed(n) /\ target[n] = r.id}) = 2
  /\ \E a \in alerts : a.severity = "critical"

\* C7: every threat event has at most one open alert.
C7_AtMostOneOpenAlert ==
  \A r \in threat_events : Cardinality(OpenAlerts(alerts, r)) <= 1

\* C8: with replicated processors no threat message makes process_payload
\* raise, and once two well-formed threat messages with the same dedupe
\* hash are both finished there is exactly one row with that hash.
C8_RaceLeavesOneRecord ==
  /\ \A n \in ThreatMsgs : outcome[n] # "raised"
  /\ \A n1, n2 \in ThreatMsgs :
       ( /\ n1 # n2
         /\ HashOfMsg(n1) = HashOfMsg(n2)
         /\ WellFormed(n1) /\ WellFormed(n2)
         /\ Finished(n1) /\ Finished(n2) )
       => Cardinality(FindEvent(threat_events, HashOfMsg(n1))) = 1

\* the losing insert of a race: a well-formed message rolled back
C8_Witness ==
  \E n1, n2 \in ThreatMsgs :
    /\ n1 # n2
    /\ HashOfMsg(n1) = HashOfMsg(n2)
    /\ WellFormed(n1) /\ WellFormed(n2)
    /\ ~seeded
    /\ outcome[n1] = "committed" /\ outcome[n2] = "rolled_back"
    /\ target[n2] = 0
    /\ Cardinality(FindEvent(threat_events, HashOfMsg(n1))) = 1

\* occurred_at is missing or is anything but a well-formed timestamp
MalformedOccurredAt(n) ==
  LET value == Payload(n)["occurred_at"]
  IN ~(value.t = "str" /\ value.s \in DOMAIN IsoTimes)

\* C9: a finished threat message that is well-formed but for its
\* occurred_at is committed, and a row with its dedupe hash is stored.
C9_MalformedTimestampStillStored ==
  \A n \in ThreatMsgs :
    (WellFormed(n) /\ MalformedOccurredAt(n) /\ Finished(n))
      => /\ Committed(n)
         /\ FindEvent(threat_events, HashOfMsg(n)) # {}

\* C10: no message makes the loop of a processor end.
C10_LoopNeverExits == \A c \in Consumers : pc[c] # "raised"

(***************************************************************************)
(* Text.  The correlator and the certstream matcher take strings apart, so *)
(* there a string is the sequence of its characters.                       *)
(***************************************************************************)
UpperCase ==
  << "A", "B", "C", "D", "E", "F", "G", "H", "I", "J", "K", "L", "M",
     "N", "O", "P", "Q", "R", "S", "T", "U", "V", "W", "X", "Y", "Z" >>

LowerCase ==
  << "a", "b", "c", "d", "e", "f", "g", "h", "i", "j", "k", "l", "m",
     "n", "o", "p", "q", "r", "s", "t", "u", "v", "w", "x", "y", "z" >>

Digits == {"0", "1", "2", "3", "4", "5", "6", "7", "8", "9"}

Letters == {LowerCase[i] : i \in DOMAIN LowerCase}

\* a list (a tuple) of the values of a function over 1..n
List(values) == values \o <<>>

\* str.lower()
lower(value) ==
  List([ i \in DOMAIN value |->
           IF \E k \in DOMAIN UpperCase : UpperCase[k] = value[i]
           THEN LowerCase[CHOOSE k \in DOMAIN UpperCase : UpperCase[k] = value[i]]
           ELSE value[i] ])

\* the character class [a-z0-9]
IsAlnum(ch) == ch \in Letters \cup Digits

\* index of the first ch in value, 0 when there is none (str.find + 1)
Find(value, ch) ==
  IF \E i \in DOMAIN value : value[i] = ch
  THEN CHOOSE i \in DOMAIN value :
         value[i] = ch /\ \A j \in 1..(i - 1) : value[j] # ch
  ELSE 0

\* value.split(ch)[0]
SplitFirst(value, ch) ==
  IF Find(value, ch) = 0 THEN value ELSE SubSeq(value, 1, Find(value, ch) - 1)

\* part in value
Contains(value, part) ==
  \E i \in 1..(Len(value) - Len(part) + 1) :
     SubSeq(value, i, i + Len(part) - 1) = part

\* value.lstrip(chars)
lstrip(value, chars) ==
  IF \A i \in DOMAIN value : value[i] \in chars THEN <<>>
  ELSE LET first == CHOOSE i \in DOMAIN value :
                      value[i] \notin chars /\ \A j \in 1..(i - 1) : value[j] \in chars
       IN SubSeq(value, first, Len(value))

\* The characters of a string.
Text(value) ==
  CASE value = "" -> <<>>
    [] value = "Acme" -> <<"A", "c", "m", "e">>
    [] value = "Bolt" -> <<"B", "o", "l", "t">>
    [] value = "BOLT" -> <<"B", "O", "L", "T">>
    [] value = "Unknown" -> <<"U", "n", "k", "n", "o", "w", "n">>
    [] value = "unknown" -> <<"u", "n", "k", "n", "o", "w", "n">>
    [] value = "a.com" -> <<"a", ".", "c", "o", "m">>
    [] value = "b.com" -> <<"b", ".", "c", "o", "m">>
    [] value = "http://b.com/x" -> <<"h", "t", "t", "p", ":", "/", "/", "b", ".", "c", "o", "m", "/", "x">>
    [] value = "http://bolt.io/x" -> <<"h", "t", "t", "p", ":", "/", "/", "b", "o", "l", "t", ".", "i", "o", "/", "x">>
    [] value = "http://[bad" -> <<"h", "t", "t", "p", ":", "/", "/", "[", "b", "a", "d">>
    [] value = "1.2.3.4" -> <<"1", ".", "2", ".", "3", ".", "4">>
    [] value = "j.doe@acme.com" -> <<"j", ".", "d", "o", "e", "@", "a", "c", "m", "e", ".", "c", "o", "m">>
    [] value = "x@zeta.com" -> <<"x", "@", "z", "e", "t", "a", ".", "c", "o", "m">>
    [] value = "unknown@unknown.local" -> <<"u", "n", "k", "n", "o", "w", "n", "@", "u", "n", "k", "n", "o", "w", "n", ".", "l", "o", "c", "a", "l">>
    [] value = "acme.com" -> <<"a", "c", "m", "e", ".", "c", "o", "m">>
    [] value = "bolt.io" -> <<"b", "o", "l", "t", ".", "i", "o">>
    [] value = "unknown.local" -> <<"u", "n", "k", "n", "o", "w", "n", ".", "l", "o", "c", "a", "l">>
    [] value = "Microsoft" -> <<"M", "i", "c", "r", "o", "s", "o", "f", "t">>
    [] value = "micro" -> <<"m", "i", "c", "r", "o">>
    [] value = "okta" -> <<"o", "k", "t", "a">>
    [] value = "microsoft" -> <<"m", "i", "c", "r", "o", "s", "o", "f", "t">>
    [] value = "aws" -> <<"a", "w", "s">>
    [] value = "docu-sign" -> <<"d", "o", "c", "u", "-", "s", "i", "g", "n">>
    [] value = "--" -> <<"-", "-">>
    [] value = "okta-sso-security-check.net" -> <<"o", "k", "t", "a", "-", "s", "s", "o", "-", "s", "e", "c", "u", "r", "i", "t", "y", "-", "c", "h", "e", "c", "k", ".", "n", "e", "t">>
    [] value = "micr0soft-support.com" -> <<"m", "i", "c", "r", "0", "s", "o", "f", "t", "-", "s", "u", "p", "p", "o", "r", "t", ".", "c", "o", "m">>
    [] value = "okta.com" -> <<"o", "k", "t", "a", ".", "c", "o", "m">>
    [] value = "OKT4.io" -> <<"O", "K", "T", "4", ".", "i", "o">>
    [] value = "*.zzz.org:443" -> <<"*", ".", "z", "z", "z", ".", "o", "r", "g", ":", "4", "4", "3">>
    [] value = "*." -> <<"*", ".">>
    [] value = "mircosoft.com" -> <<"m", "i", "r", "c", "o", "s", "o", "f", "t", ".", "c", "o", "m">>
    [] value = "awz.net" -> <<"a", "w", "z", ".", "n", "e", "t">>
    [] value = "docusign-okta.com" -> <<"d", "o", "c", "u", "s", "i", "g", "n", "-", "o", "k", "t", "a", ".", "c", "o", "m">>

\* _normalize: re.sub(r"[^a-z0-9]", "", value.lower())
_normalize(value) == SelectSeq(lower(value), IsAlnum)

\* urlparse(raw).netloc: the text between "//" and the next "/", "?" or "#"
\* of a URL that starts with a scheme or with "//", else the empty string;
\* a netloc with one square bracket and not the other raises ValueError.
urlparse(raw) ==
  LET colon == Find(raw, ":")
      hasScheme == /\ colon > 1
                   /\ raw[1] \in Letters
                   /\ \A i \in 1..(colon - 1) : raw[i] \in Letters \cup Digits \cup {"+", "-", "."}
      rest == IF hasScheme THEN SubSeq(raw, colon + 1, Len(raw)) ELSE raw
      hasNetloc == Len(rest) >= 2 /\ rest[1] = "/" /\ rest[2] = "/"
      after == SubSeq(rest, 3, Len(rest))
      stops == {i \in DOMAIN after : after[i] \in {"/", "?", "#"}}
      stop == IF stops = {} THEN Len(after) + 1
              ELSE CHOOSE i \in stops : \A j \in stops : i <= j
      netloc == IF hasNetloc THEN SubSeq(after, 1, stop - 1) ELSE <<>>
  IN [ raise |-> (Find(netloc, "[") > 0) # (Find(netloc, "]") > 0),
       netloc |-> netloc ]

rstrip(value, chars) ==
  IF \A i \in DOMAIN value : value[i] \in chars THEN <<>>
  ELSE LET last == CHOOSE i \in DOMAIN value :
                     value[i] \notin chars
                     /\ \A j \in (i + 1)..Len(value) : value[j] \in chars
       IN SubSeq(value, 1, last)


\* _brand_key_from_domain
_brand_key_from_domain(domain) ==
  IF domain = <<>> THEN [raise |-> FALSE, key |-> Text("unknown")]
  ELSE
    LET lowered == lower(domain)
        raw == IF Find(lowered, "@") = 0 THEN lowered
               ELSE SubSeq(lowered,
                           1 + CHOOSE i \in DOMAIN lowered :
                                 /\ lowered[i] = "@"
                                 /\ \A j \in (i + 1)..Len(lowered) : lowered[j] # "@",
                           Len(lowered))
        isUrl == Contains(raw, <<":", "/", "/">>)
        parsed == urlparse(raw)
        netloc == IF isUrl THEN parsed.netloc ELSE raw
        host == rstrip(lstrip(lstrip(SplitFirst(netloc, ":"), {"*", "."}), {" "}), {" "})
        label == IF Find(host, ".") > 0 THEN SplitFirst(host, ".") ELSE host
        cleaned == _normalize(label)
    IN [ raise |-> isUrl /\ parsed.raise,
         key |-> IF cleaned = <<>> THEN Text("unknown") ELSE cleaned ]

\* _campaign_id: "LRX-CMP-" and the first 8 hex digits of
\* sha1("<brand_key>:<indicator_hint>"), kept as the text that is hashed
_campaign_id(brand_key, indicator_hint) ==
  [ prefix |-> "LRX-CMP-", sha1 |-> brand_key \o <<":">> \o indicator_hint ]

(***************************************************************************)
(* Campaign correlation: campaigns.py.                                     *)
(***************************************************************************)
MaxHours == 2
MaxLimit == 3

Min(a, b) == IF a <= b THEN a ELSE b

\* A stored indicator: its dedupe_hash is the hash of its six fields.
Stored(row) ==
  [ row EXCEPT !.dedupe_hash =
      Sha256(row.source \o "|" \o row.indicator_type \o "|" \o row.indicator_value
               \o "|" \o row.brand_target \o "|" \o row.country \o "|" \o row.category) ]

\* Rows the three tables can hold when the campaign API is called.
ThreatRows ==
  { Stored([SeedThreat EXCEPT !.id = 1, !.confidence = 86, !.occurred_at = 1]),
    Stored([SeedThreat EXCEPT !.id = 2, !.indicator_value = "b.com", !.volume = 1,
                              !.confidence = 91, !.category = "Phishing URL",
                              !.occurred_at = 1]),
    Stored([SeedThreat EXCEPT !.id = 3, !.indicator_type = "url",
                              !.indicator_value = "http://bolt.io/x",
                              !.brand_target = "Unknown", !.confidence = 40,
                              !.country = "Brazil", !.occurred_at = 0]),
    Stored([SeedThreat EXCEPT !.id = 4, !.indicator_type = "ip",
                              !.indicator_value = "1.2.3.4", !.brand_target = "BOLT",
                              !.confidence = 60, !.volume = 3, !.occurred_at = 2]),
    Stored([SeedThreat EXCEPT !.id = 5, !.indicator_type = "url",
                              !.indicator_value = "http://[bad",
                              !.brand_target = "Unknown", !.occurred_at = 0]),
    Stored([SeedThreat EXCEPT !.id = 6, !.country = "Brazil", !.confidence = 70,
                              !.occurred_at = 0]),
    Stored([SeedThreat EXCEPT !.id = 7, !.indicator_type = "email",
                              !.indicator_value = "x@zeta.com",
                              !.brand_target = "Unknown", !.confidence = 55,
                              !.occurred_at = 1]) }

AtoRows ==
  { [ id |-> 1, user_email |-> "j.doe@acme.com", risk_score |-> 91,
      action_taken |-> "monitor", created_at |-> 1 ],
    [ id |-> 2, user_email |-> "x@zeta.com", risk_score |-> 50,
      action_taken |-> "monitor", created_at |-> 1 ] }

DmarcRows ==
  { [ id |-> 1, domain |-> "acme.com", disposition |-> "reject",
      spf_result |-> "fail", dkim_result |-> "pass", msg_count |-> 5,
      created_at |-> 1 ],
    [ id |-> 2, domain |-> "bolt.io", disposition |-> "none",
      spf_result |-> "pass", dkim_result |-> "pass", msg_count |-> 3,
      created_at |-> 0 ] }

\* _normalize and _brand_key_from_domain of every string, computed once
KeyTable ==
  [ value \in
      { "", "Acme", "Bolt", "BOLT", "Unknown",
        "unknown", "a.com", "b.com", "http://b.com/x", "http://bolt.io/x",
        "http://[bad", "1.2.3.4", "j.doe@acme.com", "x@zeta.com", "unknown@unknown.local",
        "acme.com", "bolt.io", "unknown.local" } |->
      [ normalized |-> _normalize(Text(value)),
        derived |-> _brand_key_from_domain(Text(value)) ] ]

\* since = utcnow() - timedelta(hours=max(1, hours)), one hour a tick
Since(t, hours) == t - Max(1, hours)

\* where(<col> >= since)
InWindow_all(rows, col, since) == rows
InWindow(rows, col, since) == {r \in rows : r[col] >= since}

\* order_by(desc(occurred_at)).all(): the rows by occurred_at descending,
\* rows of one occurred_at in whatever order the database returns them
RECURSIVE QueryOrders(_)
QueryOrders(rows) ==
  IF rows = {} THEN {<<>>}
  ELSE UNION { { <<r>> \o rest : rest \in QueryOrders(rows \ {r}) } :
               r \in {x \in rows : \A y \in rows : x.occurred_at >= y.occurred_at} }

\* the grouping key of one indicator, keys being KeyTable
ThreatKey_value(keys, threat) == keys[threat.indicator_value].derived
ThreatKey(keys, threat) ==
  IF threat.brand_target # "" /\ threat.brand_target # "Unknown"
  THEN [raise |-> FALSE, key |-> keys[threat.brand_target].normalized]
  ELSE keys[threat.indicator_value].derived

\* the keys of a dict or Counter filled from values: first-encountered order
InsertionOrder(values) ==
  LET firsts == {i \in DOMAIN values : \A j \in 1..(i - 1) : values[j] # values[i]}
  IN List([ p \in 1..Cardinality(firsts) |->
              values[CHOOSE i \in firsts : Cardinality({j \in firsts : j < i}) = p - 1] ])

\* list.sort(key=item[col], reverse=True) and sorted(..., reverse=True) are
\* stable: by key descending, equal keys in their original order
SortDescending(items, col) ==
  List([ p \in DOMAIN items |->
           items[CHOOSE i \in DOMAIN items :
                   Cardinality({j \in DOMAIN items :
                                  \/ items[j][col] > items[i][col]
                                  \/ (items[j][col] = items[i][col] /\ j < i)}) = p - 1] ])

Values(items, col) == List([i \in DOMAIN items |-> items[i][col]])

\* list[:n]
Truncate(list, n) == SubSeq(list, 1, Min(n, Len(list)))

\* the first n values as they were first encountered, whatever their counts
most_common_unsorted(values, n) == Truncate(InsertionOrder(values), n)

\* Counter(values).most_common(n)
most_common(values, n) ==
  Values(Truncate(SortDescending(
    List([ i \in DOMAIN InsertionOrder(values) |->
             [ value |-> InsertionOrder(values)[i],
               count |-> Cardinality({j \in DOMAIN values :
                                        values[j] = InsertionOrder(values)[i]}) ] ]),
    "count"), n), "value")

RECURSIVE SumSeq(_)
SumSeq(numbers) ==
  IF numbers = <<>> THEN 0 ELSE Head(numbers) + SumSeq(Tail(numbers))

RECURSIVE SumMsgCount(_)
SumMsgCount(reports) ==
  IF reports = {} THEN 0
  ELSE LET r == CHOOSE x \in reports : TRUE
       IN r.msg_count + SumMsgCount(reports \ {r})

\* " + ".join(triggers)
RECURSIVE Join(_)
Join(triggers) ==
  IF Len(triggers) = 1 THEN triggers[1]
  ELSE triggers[1] \o " + " \o Join(Tail(triggers))

\* int(min(99, max(45, avg_confidence + ...))): avg_confidence is
\* sum/len, so the sum with the bonuses is the fraction raw/n
threat_confidence_score_unclamped(confidences, dmarc_fail_count, ato_count) ==
  (SumSeq(confidences) \div Len(confidences)) + Min(20, Len(confidences) * 2)
    + (IF dmarc_fail_count > 0 THEN 15 ELSE 0) + (IF ato_count > 0 THEN 15 ELSE 0)
threat_confidence_score(confidences, dmarc_fail_count, ato_count) ==
  LET n == Len(confidences)
      bonus == Min(20, n * 2)
                 + (IF dmarc_fail_count > 0 THEN 15 ELSE 0)
                 + (IF ato_count > 0 THEN 15 ELSE 0)
      raw == SumSeq(confidences) + bonus * n
  IN IF raw >= 99 * n THEN 99
     ELSE IF raw <= 45 * n THEN 45
     ELSE raw \div n

IsFailing(report) ==
  \/ report.disposition = "reject"
  \/ report.spf_result # "pass"
  \/ report.dkim_result # "pass"

\* the dict appended for one bucket
CampaignDict(brand_key, items, ioc_domains, ioc_ips, ato_count, dmarc_fail_count) ==
  [ campaign_id |->
      \* indicator_hint: top_indicator[0][0] if top_indicator else
      \* (ip_counts.most_common(1)[0][0] if ip_counts else brand_key)
      _campaign_id(brand_key, IF ioc_domains # <<>> THEN Text(ioc_domains[1])
                              ELSE IF ioc_ips # <<>> THEN Text(ioc_ips[1])
                              ELSE brand_key),
    brand_key |-> brand_key,
    threat_confidence_score |->
      threat_confidence_score(Values(items, "confidence"), dmarc_fail_count, ato_count),
    trigger_event |->
      Join(<<"Lookalike domain activity">>
             \o (IF dmarc_fail_count > 0 THEN <<"DMARC authentication failures">> ELSE <<>>)
             \o (IF ato_count > 0 THEN <<"ATO anomaly telemetry">> ELSE <<>>)),
    threat_count |-> Len(items),
    total_volume |-> SumSeq(Values(items, "volume")),
    ato_event_count |-> ato_count,
    dmarc_fail_count |-> dmarc_fail_count,
    attack_vectors |-> most_common(Values(items, "category"), 5),
    top_countries |-> most_common(Values(items, "country"), 5),
    ioc_domains |-> ioc_domains,
    ioc_ips |-> ioc_ips,
    first_seen |-> CHOOSE t \in {items[i].occurred_at : i \in DOMAIN items} :
                     \A i \in DOMAIN items : t <= items[i].occurred_at,
    last_seen |-> CHOOSE t \in {items[i].occurred_at : i \in DOMAIN items} :
                    \A i \in DOMAIN items : t >= items[i].occurred_at ]

\* the body of the loop over grouped_threats.items()
Campaign(brand_key, items, related_ato, related_dmarc) ==
  CampaignDict(
    brand_key, items,
    most_common(Values(SelectSeq(items, LAMBDA t : t.indicator_type \in {"domain", "url"}),
                       "indicator_value"), 5),
    most_common(Values(SelectSeq(items, LAMBDA t : t.indicator_type = "ip"),
                       "indicator_value"), 5),
    Cardinality(related_ato),
    SumMsgCount({d \in related_dmarc : IsFailing(d)}))

\* the campaigns of the buckets, in the order the buckets were created
Campaigns(keys, threats, ato_rows, dmarc_rows, brand_keys) ==
  List([ k \in DOMAIN brand_keys |->
           Campaign(brand_keys[k],
                    SelectSeq(threats, LAMBDA t : ThreatKey(keys, t).key = brand_keys[k]),
                    {a \in ato_rows : keys[a.user_email].derived.key = brand_keys[k]},
                    {d \in dmarc_rows : keys[d.domain].derived.key = brand_keys[k]}) ])

BucketKeys(keys, threats) ==
  InsertionOrder(List([i \in DOMAIN threats |-> ThreatKey(keys, threats[i]).key]))

\* campaigns.sort(key=score, reverse=True)
Ranking_unsorted(keys, threats, ato_rows, dmarc_rows) ==
  Campaigns(keys, threats, ato_rows, dmarc_rows, BucketKeys(keys, threats))
Ranking(keys, threats, ato_rows, dmarc_rows) ==
  SortDescending(
    Campaigns(keys, threats, ato_rows, dmarc_rows, BucketKeys(keys, threats)),
    "threat_confidence_score")

\* correlate_campaigns over the rows the three queries returned
CorrelateWith(keys, threats, ato_rows, dmarc_rows, limit) ==
  IF threats = <<>> THEN [raise |-> FALSE, campaigns |-> <<>>]
  ELSE IF \/ \E a \in ato_rows : keys[a.user_email].derived.raise
          \/ \E d \in dmarc_rows : keys[d.domain].derived.raise
          \/ \E i \in DOMAIN threats : ThreatKey(keys, threats[i]).raise
  THEN [raise |-> TRUE, campaigns |-> <<>>]
  ELSE [ raise |-> FALSE,
         campaigns |-> Truncate(Ranking(keys, threats, ato_rows, dmarc_rows),
                                Max(1, limit)) ]

correlate_campaigns(threats, ato_rows, dmarc_rows, limit) ==
  CorrelateWith(KeyTable, threats, ato_rows, dmarc_rows, limit)

find_campaign(threats, ato_rows, dmarc_rows, campaign_id) ==
  LET all == correlate_campaigns(threats, ato_rows, dmarc_rows, 500)
      hits == {i \in DOMAIN all.campaigns : all.campaigns[i].campaign_id = campaign_id}
  IN [ raise |-> all.raise,
       campaigns |-> IF hits = {} THEN <<>>
                     ELSE <<all.campaigns[CHOOSE i \in hits : \A j \in hits : i <= j]>> ]

\* The store when the API is called: any rows; no message is under way.
InitCorrelate ==
  /\ sent = <<>>
  /\ queue = <<>>
  /\ outcome = <<>>
  /\ target = <<>>
  /\ seeded = FALSE
  /\ once = FALSE
  /\ threat_events \in SUBSET ThreatRows
  /\ alerts = {}
  /\ ato_events \in SUBSET AtoRows
  /\ dmarc_reports \in SUBSET DmarcRows
  /\ pc = [c \in Consumers |-> "brpop"]
  /\ sess = [c \in Consumers |-> NoSess]
  /\ isolation = "read_committed"
  /\ now = 2
  /\ correlated = Idle
  /\ matched = Idle
  /\ certstream = Idle
  /\ orchestrator = Idle
  /\ mailbox = Idle

\* what a call of the campaign API was given and what it returned
Call(fn, hours, limit, campaign_id, result) ==
  [ fn |-> fn, hours |-> hours, limit |-> limit, campaign_id |-> campaign_id,
    raise |-> result.raise, campaigns |-> result.campaigns ]

\* one call of correlate_campaigns; correlated holds what it returned
Correlate(hours, limit) ==
  /\ correlated = Idle
  /\ \E threats \in QueryOrders(InWindow(threat_events, "occurred_at", Since(now, hours))) :
       correlated' =
         Call("correlate_campaigns", hours, limit, <<>>,
              correlate_campaigns(threats,
                                  InWindow(ato_events, "created_at", Since(now, hours)),
                                  InWindow(dmarc_reports, "created_at", Since(now, hours)),
                                  limit))
  /\ UNCHANGED <<pipeline, store, now, matched, certstream, orchestrator, mailbox>>

\* one call of find_campaign
FindCampaign(campaign_id, hours) ==
  /\ correlated = Idle
  /\ \E threats \in QueryOrders(InWindow(threat_events, "occurred_at", Since(now, hours))) :
       correlated' =
         Call("find_campaign", hours, 500, campaign_id,
              find_campaign(threats,
                            InWindow(ato_events, "created_at", Since(now, hours)),
                            InWindow(dmarc_reports, "created_at", Since(now, hours)),
                            campaign_id))
  /\ UNCHANGED <<pipeline, store, now, matched, certstream, orchestrator, mailbox>>

\* the endpoint hands the result to its caller; nothing of the call is kept
Respond ==
  /\ correlated # Idle
  /\ correlated' = Idle
  /\ UNCHANGED <<pipeline, store, now, matched, certstream, orchestrator, mailbox>>

\* the campaign ids a caller of find_campaign asks for are those of four
\* brand keys and hints
SpecCorrelate ==
  InitCorrelate
    /\ [][ \/ \E hours \in 0..MaxHours, limit \in 0..MaxLimit : Correlate(hours, limit)
           \/ \E campaign_id \in
                   { _campaign_id(<<"a", "c", "m", "e">>, Text("a.com")),
                     _campaign_id(<<"a", "c", "m", "e">>, Text("b.com")),
                     _campaign_id(<<"b", "o", "l", "t">>, Text("1.2.3.4")),
                     _campaign_id(<<"z", "e", "t", "a">>, <<"z", "e", "t", "a">>) },
                 hours \in 0..MaxHours :
                FindCampaign(campaign_id, hours)
           \/ Respond ]_vars

Called(fn) == correlated # Idle /\ correlated.fn = fn

Returned(fn) == Called(fn) /\ ~correlated.raise

(***************************************************************************)
(* Properties of the campaign API.                                         *)
(***************************************************************************)
\* the rows of the window of the call that correlated holds
WindowStart == now - (IF correlated.hours < 1 THEN 1 ELSE correlated.hours)

WindowThreats == {t \in threat_events : t.occurred_at >= WindowStart}

WindowAto == {a \in ato_events : a.created_at >= WindowStart}

WindowDmarc == {d \in dmarc_reports : d.created_at >= WindowStart}

Scores == Values(correlated.campaigns, "threat_confidence_score")

NonIncreasing(scores) ==
  \A i, j \in DOMAIN scores : i < j => scores[i] >= scores[j]

\* C11 as stated: the list correlate_campaigns returns is sorted by
\* threat_confidence_score, highest first, and is no longer than limit.
C11_SortedAndAtMostLimit ==
  Returned("correlate_campaigns") =>
    /\ NonIncreasing(Scores)
    /\ Len(correlated.campaigns) <= correlated.limit

\* C11: the list correlate_campaigns returns is sorted by
\* threat_confidence_score, highest first, and is no longer than the limit,
\* a limit below 1 counting as 1.
C11_SortedAndAtMostLimitOrOne ==
  Returned("correlate_campaigns") =>
    /\ NonIncreasing(Scores)
    /\ Len(correlated.campaigns) <= (IF correlated.limit < 1 THEN 1 ELSE correlated.limit)

C11_Witness ==
  /\ Returned("correlate_campaigns")
  /\ Len(correlated.campaigns) = 2
  /\ Scores[1] > Scores[2]
  /\ Cardinality(WindowThreats) > 2

\* the brand key of an indicator: its normalized brand_target when it has
\* one other than "Unknown", else the key derived from its value
BrandKeyOf(threat) ==
  IF threat.brand_target \notin {"", "Unknown"}
  THEN KeyTable[threat.brand_target].normalized
  ELSE KeyTable[threat.indicator_value].derived.key

BucketOf(campaign) == {t \in WindowThreats : BrandKeyOf(t) = campaign.brand_key}

RECURSIVE Total(_, _)
Total(rows, col) ==
  IF rows = {} THEN 0
  ELSE LET r == CHOOSE x \in rows : TRUE
       IN r[col] + Total(rows \ {r}, col)

ReturnedCampaigns ==
  IF correlated # Idle /\ ~correlated.raise
  THEN {correlated.campaigns[i] : i \in DOMAIN correlated.campaigns}
  ELSE {}

\* mean confidence + min(20, 2 * threat_count) + 15 if dmarc_fail_count > 0
\* + 15 if ato_event_count > 0, times threat_count
ScoreSum(campaign) ==
  Total(BucketOf(campaign), "confidence")
    + campaign.threat_count
        * ( (IF 2 * campaign.threat_count < 20 THEN 2 * campaign.threat_count ELSE 20)
            + (IF campaign.dmarc_fail_count > 0 THEN 15 ELSE 0)
            + (IF campaign.ato_event_count > 0 THEN 15 ELSE 0) )

\* C12: the score of every returned campaign is the integer part of its mean
\* confidence plus the bonuses of its own counts, held between 45 and 99; a
\* bucket of one indicator of confidence 86 without ATO signals or failing
\* auth reports scores 88.
C12_ScoreIsClampedSum ==
  \A c \in ReturnedCampaigns :
    LET s == c.threat_confidence_score
        n == c.threat_count
    IN /\ 45 <= s /\ s <= 99
       /\ ScoreSum(c) >= 99 * n => s = 99
       /\ ScoreSum(c) <= 45 * n => s = 45
       /\ (45 * n < ScoreSum(c) /\ ScoreSum(c) < 99 * n) =>
            (s * n <= ScoreSum(c) /\ ScoreSum(c) < (s + 1) * n)
       /\ ( /\ n = 1
            /\ Total(BucketOf(c), "confidence") = 86
            /\ c.ato_event_count = 0
            /\ c.dmarc_fail_count = 0 ) => s = 88

C12_Witness ==
  \E c \in ReturnedCampaigns :
    /\ c.threat_count = 1
    /\ Total(BucketOf(c), "confidence") = 86
    /\ c.ato_event_count = 0
    /\ c.dmarc_fail_count = 0
    /\ c.threat_confidence_score = 88

\* C13: every run of correlate_campaigns over the store and window of the
\* run that returned gives each brand_key the campaign_id this run gave it.
C13_SameIdEveryRun ==
  Returned("correlate_campaigns") =>
    \A threats \in QueryOrders(WindowThreats) :
      \A c \in ReturnedCampaigns :
        \A d \in { x \in { correlate_campaigns(threats, WindowAto, WindowDmarc,
                                               correlated.limit).campaigns[i] :
                           i \in 1..Len(correlate_campaigns(threats, WindowAto, WindowDmarc,
                                                            correlated.limit).campaigns) } :
                   x.brand_key = c.brand_key } :
          d.campaign_id = c.campaign_id

\* the id asked for is in no ranking of the window
AbsentId ==
  \A threats \in QueryOrders(WindowThreats) :
    \A c \in { Ranking(KeyTable, threats, WindowAto, WindowDmarc)[i] :
               i \in 1..Len(Ranking(KeyTable, threats, WindowAto, WindowDmarc)) } :
      c.campaign_id # correlated.campaign_id

\* C14: a find_campaign call leaves the store as it was and, asked for an id
\* that is not in the recomputed ranking, returns None and raises nothing.
C14_AbsentIdReturnsNone ==
  /\ []( (Called("find_campaign") /\ AbsentId) =>
           (~correlated.raise /\ correlated.campaigns = <<>>) )
  /\ [][ (correlated = Idle /\ correlated' # Idle /\ correlated'.fn = "find_campaign") =>
            store' = store ]_vars

\* C15: every returned campaign counts at least one indicator of the window
\* and has the brand key of one; without an indicator in the window the
\* list is empty.
C15_CampaignsComeFromIndicators ==
  Returned("correlate_campaigns") =>
    /\ \A c \in ReturnedCampaigns : c.threat_count >= 1 /\ BucketOf(c) # {}
    /\ WindowThreats = {} => correlated.campaigns = <<>>

C15_Witness ==
  /\ Returned("correlate_campaigns")
  /\ correlated.campaigns # <<>>
  /\ \E a \in WindowAto :
       \A c \in ReturnedCampaigns : KeyTable[a.user_email].derived.key # c.brand_key
  /\ \E d \in WindowDmarc :
       \A c \in ReturnedCampaigns : KeyTable[d.domain].derived.key # c.brand_key

\* C16: in a returned list no two campaigns share a brand key, each campaign
\* counts the indicators of the window whose brand key is its brand_key, the
\* ATO signals whose user_email derives that key and the messages of the
\* failing auth reports whose domain derives it; a list the limit did not
\* cut short has a campaign for every indicator of the window.
C16_CountedByBrandKey ==
  Returned("correlate_campaigns") =>
    /\ \A i, j \in DOMAIN correlated.campaigns :
         correlated.campaigns[i].brand_key = correlated.campaigns[j].brand_key => i = j
    /\ \A c \in ReturnedCampaigns :
         /\ c.threat_count = Cardinality(BucketOf(c))
         /\ c.ato_event_count =
              Cardinality({a \in WindowAto : KeyTable[a.user_email].derived.key = c.brand_key})
         /\ c.dmarc_fail_count =
              Total({d \in WindowDmarc : /\ KeyTable[d.domain].derived.key = c.brand_key
                                         /\ IsFailing(d)}, "msg_count")
    /\ Len(correlated.campaigns) < correlated.limit =>
         \A t \in WindowThreats : \E c \in ReturnedCampaigns : t \in BucketOf(c)

C16_Witness ==
  /\ Returned("correlate_campaigns")
  /\ Len(correlated.campaigns) < correlated.limit
  /\ \E c \in ReturnedCampaigns :
       /\ c.threat_count = 2
       /\ c.ato_event_count = 1
       /\ c.dmarc_fail_count = 5
  /\ \E c \in ReturnedCampaigns :
       \E t \in BucketOf(c) : t.brand_target = "Unknown"

(***************************************************************************)
(* The certstream brand matcher: workers/certstream.py.                    *)
(* A score is the fraction n/d.                                            *)
(***************************************************************************)
Score(n, d) == [n |-> n, d |-> d]

GE(x, y) == x.n * y.d >= y.n * x.d

GT(x, y) == x.n * y.d > y.n * x.d

\* None
NoBrand == <<>>

\* _clean_text: re.sub(r"[^a-z0-9]", "", value.lower())
_clean_text(value) == SelectSeq(lower(value), IsAlnum)

\* str.title(): the first letter of every run of letters in upper case, the
\* other letters in lower case
title(value) ==
  List([ i \in DOMAIN value |->
           IF lower(value)[i] \in Letters
              /\ (i = 1 \/ lower(value)[i - 1] \notin Letters)
           THEN UpperCase[CHOOSE k \in DOMAIN LowerCase : LowerCase[k] = lower(value)[i]]
           ELSE lower(value)[i] ])

\* [token for token in re.split(r"[^a-z0-9]+", first_label) if token]
Tokens(first_label) ==
  LET starts == {i \in DOMAIN first_label :
                   /\ IsAlnum(first_label[i])
                   /\ (i = 1 \/ ~IsAlnum(first_label[i - 1]))}
      stop(i) == CHOOSE j \in i..Len(first_label) :
                   /\ \A k \in i..j : IsAlnum(first_label[k])
                   /\ (j = Len(first_label) \/ ~IsAlnum(first_label[j + 1]))
  IN List([ p \in 1..Cardinality(starts) |->
              LET i == CHOOSE x \in starts : Cardinality({y \in starts : y < x}) = p - 1
              IN SubSeq(first_label, i, stop(i)) ])

\* host.split(".")[0] of domain.lower().lstrip("*.").split(":")[0]
FirstLabel(domain) ==
  SplitFirst(SplitFirst(lstrip(lower(domain), {"*", "."}), ":"), ".")

\* [normalized_label] + [_clean_text(token) for token in tokens]
CandidatesOf(first_label) ==
  <<_clean_text(first_label)>>
    \o List([i \in DOMAIN Tokens(first_label) |-> _clean_text(Tokens(first_label)[i])])

\* the inner loop of _levenshtein_distance: the row of char_a
RECURSIVE Current(_, _, _, _)
Current(char_a, previous, b, current) ==
  IF Len(current) > Len(b) THEN current
  ELSE Current(char_a, previous, b,
               Append(current,
                      Min(current[Len(current)] + 1,
                          Min(previous[Len(current) + 1] + 1,
                              previous[Len(current)]
                                + (IF char_a # b[Len(current)] THEN 1 ELSE 0)))))

\* the outer loop: row i starts with i, so previous[1] is the number of rows
\* done; the result is the last row
RECURSIVE Rows(_, _, _)
Rows(a, b, previous) ==
  IF previous[1] >= Len(a) THEN previous
  ELSE Rows(a, b, Current(a[previous[1] + 1], previous, b, <<previous[1] + 1>>))

\* _levenshtein_distance
_levenshtein_distance(a, b) ==
  IF a = b THEN 0
  ELSE IF a = <<>> THEN Len(b)
  ELSE IF b = <<>> THEN Len(a)
  ELSE IF Len(a) < Len(b)
  THEN Rows(b, a, List([j \in 1..(Len(a) + 1) |-> j - 1]))[Len(a) + 1]
  ELSE Rows(a, b, List([j \in 1..(Len(b) + 1) |-> j - 1]))[Len(b) + 1]

\* the common blocks of a[alo..ahi] and b[blo..bhi] as <<i, j, size>>
Blocks(a, b, alo, ahi, blo, bhi) ==
  {x \in (alo..ahi) \X (blo..bhi) \X (1..Len(a)) :
     /\ x[1] + x[3] - 1 <= ahi
     /\ x[2] + x[3] - 1 <= bhi
     /\ SubSeq(a, x[1], x[1] + x[3] - 1) = SubSeq(b, x[2], x[2] + x[3] - 1)}

\* difflib get_matching_blocks: find_longest_match gives the longest common
\* block, the earliest in a and then the earliest in b among the longest;
\* its size is added to the sizes matched on its left and on its right
RECURSIVE Matched(_, _, _, _, _, _)
Matched(a, b, alo, ahi, blo, bhi) ==
  IF alo > ahi \/ blo > bhi \/ Blocks(a, b, alo, ahi, blo, bhi) = {} THEN 0
  ELSE LET x == CHOOSE x \in Blocks(a, b, alo, ahi, blo, bhi) :
                  \A y \in Blocks(a, b, alo, ahi, blo, bhi) :
                     \/ x[3] > y[3]
                     \/ x[3] = y[3] /\ x[1] < y[1]
                     \/ x[3] = y[3] /\ x[1] = y[1] /\ x[2] <= y[2]
       IN x[3] + Matched(a, b, alo, x[1] - 1, blo, x[2] - 1)
               + Matched(a, b, x[1] + x[3], ahi, x[2] + x[3], bhi)

\* SequenceMatcher(None, a, b).ratio(): 2.0 * matches / (len(a) + len(b))
SequenceMatcherRatio(a, b) ==
  IF Len(a) + Len(b) = 0 THEN Score(1, 1)
  ELSE Score(2 * Matched(a, b, 1, Len(a), 1, Len(b)), Len(a) + Len(b))

Exact == Score(99, 100)

Lookalike == Score(9, 10)

\* is_lookalike = distance <= 1 and len(normalized_brand) >= 4;
\* ratio = max(ratio, 0.9)
Floored_none(ratio, distance, normalized_brand) == ratio

Floored(ratio, distance, normalized_brand) ==
  IF distance <= 1 /\ Len(normalized_brand) >= 4 /\ GT(Lookalike, ratio)
  THEN Lookalike ELSE ratio

\* if normalized_brand in candidate: skip the candidate that is the brand
\* itself unless certstream_emit_on_exact_brand, else return 0.99
SubstringRule_always(normalized_brand, candidate, emit_on_exact) ==
  IF Contains(candidate, normalized_brand) THEN "return" ELSE "ratio"

SubstringRule(normalized_brand, candidate, emit_on_exact) ==
  IF ~Contains(candidate, normalized_brand) THEN "ratio"
  ELSE IF candidate = normalized_brand /\ ~emit_on_exact THEN "continue"
  ELSE "return"

\* if ratio >= settings.certstream_lookalike_similarity and ratio > best_score
Better_unchecked(ratio, threshold, best_score) == GT(ratio, best_score)

Better(ratio, threshold, best_score) ==
  GE(ratio, threshold) /\ GT(ratio, best_score)

Found(brand, score) == [brand |-> brand, score |-> score]

\* the two nested loops of _find_brand_match, from the k-th pair on, the
\* brands outermost; done is set by the return inside the loop
RECURSIVE Scan(_, _, _, _, _, _)
Pair(brands, candidates, threshold, emit_on_exact, k, best, brand, normalized_brand, candidate) ==
  IF normalized_brand = <<>> \/ candidate = <<>>
  THEN Scan(brands, candidates, threshold, emit_on_exact, k + 1, best)
  ELSE CASE SubstringRule(normalized_brand, candidate, emit_on_exact) = "return" ->
              Found(title(brand), Exact)
         [] SubstringRule(normalized_brand, candidate, emit_on_exact) = "continue" ->
              Scan(brands, candidates, threshold, emit_on_exact, k + 1, best)
         [] OTHER ->
              Scan(brands, candidates, threshold, emit_on_exact, k + 1,
                   LET ratio == Floored(SequenceMatcherRatio(normalized_brand, candidate),
                                        _levenshtein_distance(normalized_brand, candidate),
                                        normalized_brand)
                   IN IF Better(ratio, threshold, best.score)
                      THEN Found(title(brand), ratio) ELSE best)

Scan(brands, candidates, threshold, emit_on_exact, k, best) ==
  IF k > Len(brands) * Len(candidates) THEN best
  ELSE Pair(brands, candidates, threshold, emit_on_exact, k, best,
            brands[((k - 1) \div Len(candidates)) + 1],
            _clean_text(brands[((k - 1) \div Len(candidates)) + 1]),
            candidates[((k - 1) % Len(candidates)) + 1])

\* _find_brand_match(domain) under settings.brand_list,
\* settings.certstream_lookalike_similarity (a fraction) and
\* settings.certstream_emit_on_exact_brand
_find_brand_match(domain, brand_list, threshold, emit_on_exact) ==
  IF _clean_text(FirstLabel(domain)) = <<>> THEN Found(NoBrand, Score(0, 1))
  ELSE Scan(brand_list, CandidatesOf(FirstLabel(domain)), threshold,
            emit_on_exact, 1, Found(NoBrand, Score(0, 1)))

TextEach(values) == List([i \in DOMAIN values |-> Text(values[i])])

InitMatcher ==
  /\ sent = <<>>
  /\ queue = <<>>
  /\ outcome = <<>>
  /\ target = <<>>
  /\ seeded = FALSE
  /\ once = FALSE
  /\ threat_events = {}
  /\ alerts = {}
  /\ ato_events = {}
  /\ dmarc_reports = {}
  /\ pc = [c \in Consumers |-> "brpop"]
  /\ sess = [c \in Consumers |-> NoSess]
  /\ isolation = "read_committed"
  /\ now = 0
  /\ correlated = Idle /\ certstream = Idle
  /\ orchestrator = Idle /\ mailbox = Idle
  /\ \E domain \in
          {"okta-sso-security-check.net", "micr0soft-support.com", "okta.com",
           "OKT4.io", "*.zzz.org:443", "*.", "mircosoft.com", "awz.net",
           "docusign-okta.com"},
        brand_list \in
          {<<"okta">>, <<"microsoft">>, <<"microsoft", "okta">>,
           <<"okta", "docu-sign">>, <<"aws", "--">>, <<"micro", "microsoft">>},
        threshold \in {0, 50, 78, 95, 100}, emit_on_exact \in BOOLEAN :
       matched = [domain |-> domain, brand_list |-> brand_list,
                  threshold |-> threshold, emit_on_exact |-> emit_on_exact,
                  called |-> FALSE, result |-> Found(NoBrand, Score(0, 1))]

\* a call of _find_brand_match(domain) under the drawn settings
FindBrandMatch ==
  /\ ~matched.called
  /\ matched' = [matched EXCEPT
       !.called = TRUE,
       !.result = _find_brand_match(Text(matched.domain),
                                    TextEach(matched.brand_list),
                                    Score(matched.threshold, 100),
                                    matched.emit_on_exact)]
  /\ UNCHANGED <<pipeline, store, now, correlated, certstream, orchestrator, mailbox>>

SpecMatcher == InitMatcher /\ [][FindBrandMatch]_vars

(***************************************************************************)
(* Properties of the brand matcher.                                        *)
(***************************************************************************)
SameScore(x, y) == x.n * y.d = y.n * x.d

\* the non-empty candidate tokens of the domain of the call
MatchCandidates ==
  {candidate \in {CandidatesOf(FirstLabel(Text(matched.domain)))[i] :
                    i \in DOMAIN CandidatesOf(FirstLabel(Text(matched.domain)))} :
     candidate # <<>>}

\* the non-empty normalized brands of the call
MatchBrands ==
  {_clean_text(Text(matched.brand_list[i])) : i \in DOMAIN matched.brand_list}
    \ {<<>>}

\* the pairs in which the brand is a substring of the candidate
SubstringPairs ==
  {pair \in MatchBrands \X MatchCandidates : Contains(pair[2], pair[1])}

\* C17: a brand that is a substring of a candidate other than the brand itself
\* gives a match of score 0.99 under every threshold; with exact-brand
\* matches disabled a candidate equal to the brand gives no 0.99 match; so
\* okta-sso-security-check.net matches Okta at 0.99 under ["okta"], 0.78
C17_SubstringScores99 ==
  matched # Idle /\ matched.called =>
    /\ (\E pair \in SubstringPairs : pair[2] # pair[1]) =>
         /\ SameScore(matched.result.score, Exact)
         /\ matched.result.brand # NoBrand
    /\ (~matched.emit_on_exact /\ \A pair \in SubstringPairs : pair[2] = pair[1]) =>
         ~SameScore(matched.result.score, Exact)
    /\ ( /\ matched.domain = "okta-sso-security-check.net"
         /\ matched.brand_list = <<"okta">>
         /\ matched.threshold = 78
         /\ ~matched.emit_on_exact ) =>
         matched.result = Found(<<"O", "k", "t", "a">>, Exact)

C17_Witness ==
  /\ matched # Idle /\ matched.called
  /\ matched.threshold = 100
  /\ \E pair \in SubstringPairs : pair[2] # pair[1]
  /\ \E pair \in SubstringPairs : pair[2] = pair[1]
  /\ SameScore(matched.result.score, Exact)

\* shorter is longer with one character removed
OneRemoved(longer, shorter) ==
  \E i \in DOMAIN longer :
     shorter = SubSeq(longer, 1, i - 1) \o SubSeq(longer, i + 1, Len(longer))

\* one substitution, one insertion or one deletion turns x into y
OneEdit(x, y) ==
  \/ Len(x) = Len(y) /\ Cardinality({i \in DOMAIN x : x[i] # y[i]}) = 1
  \/ OneRemoved(x, y)
  \/ OneRemoved(y, x)

\* the pairs of a brand of four characters or more and a candidate one edit
\* away from it
LookalikePairs ==
  {pair \in MatchBrands \X MatchCandidates :
     Len(pair[1]) >= 4 /\ OneEdit(pair[1], pair[2])}

Reported(score) ==
  matched.result.brand # NoBrand /\ GE(matched.result.score, score)

\* C18 as stated: a brand of four characters or more with a candidate one
\* edit away is reported with a score of at least 0.90, whatever the threshold
C18_LookalikeReported ==
  matched # Idle /\ matched.called /\ LookalikePairs # {} => Reported(Lookalike)

\* C18: a brand of four characters or more with a candidate one edit away is
\* reported with a score of at least 0.90 when the threshold is at most 0.90,
\* even when the similarity ratio is lower; so micr0soft-support.com is
\* reported as Microsoft with at least 0.90 under the threshold 0.78
C18_LookalikeReportedUnderThreshold ==
  matched # Idle /\ matched.called =>
    /\ (LookalikePairs # {} /\ GE(Lookalike, Score(matched.threshold, 100))) =>
         Reported(Lookalike)
    /\ ( /\ matched.domain = "micr0soft-support.com"
         /\ matched.brand_list = <<"microsoft">>
         /\ matched.threshold = 78 ) =>
         /\ matched.result.brand = Text("Microsoft")
         /\ GE(matched.result.score, Lookalike)

C18_Witness ==
  /\ matched # Idle /\ matched.called
  /\ \E pair \in LookalikePairs :
       GT(Score(matched.threshold, 100), SequenceMatcherRatio(pair[1], pair[2]))
  /\ matched.result.brand # NoBrand
  /\ SameScore(matched.result.score, Lookalike)

\* the score of the pair of the i-th brand and a candidate: 0.99 for a
\* substring, else the ratio, floored for a lookalike
PairScore(normalized_brand, candidate) ==
  IF Contains(candidate, normalized_brand) THEN Exact
  ELSE Floored(SequenceMatcherRatio(normalized_brand, candidate),
               IF OneEdit(normalized_brand, candidate) THEN 1 ELSE 2,
               normalized_brand)

\* the pairs that count: a substring pair unless it is the brand itself with
\* exact-brand matches disabled, and any other pair whose score is positive
\* and at least the threshold
CountingPairs ==
  {pair \in (DOMAIN matched.brand_list) \X MatchCandidates :
     /\ _clean_text(Text(matched.brand_list[pair[1]])) # <<>>
     /\ IF Contains(pair[2], _clean_text(Text(matched.brand_list[pair[1]])))
        THEN pair[2] # _clean_text(Text(matched.brand_list[pair[1]]))
             \/ matched.emit_on_exact
        ELSE /\ GE(PairScore(_clean_text(Text(matched.brand_list[pair[1]])), pair[2]),
                   Score(matched.threshold, 100))
             /\ GT(PairScore(_clean_text(Text(matched.brand_list[pair[1]])), pair[2]),
                   Score(0, 1))}

ScoreOf(pair) == PairScore(_clean_text(Text(matched.brand_list[pair[1]])), pair[2])

\* C19: the result is the brand and the score of a highest-scoring pair among
\* the pairs that count, over all candidates and all brands; it is (none, 0)
\* when no pair counts; a returned brand has the score 0.99 or a score of at
\* least the threshold
C19_BestCountingPair ==
  matched # Idle /\ matched.called =>
    /\ CountingPairs = {} => matched.result = Found(NoBrand, Score(0, 1))
    /\ CountingPairs # {} =>
         \E best \in CountingPairs :
            /\ matched.result.brand = title(Text(matched.brand_list[best[1]]))
            /\ SameScore(matched.result.score, ScoreOf(best))
            /\ \A pair \in CountingPairs : GE(ScoreOf(best), ScoreOf(pair))
    /\ matched.result.brand # NoBrand =>
         \/ SameScore(matched.result.score, Exact)
         \/ GE(matched.result.score, Score(matched.threshold, 100))

C19_Witness ==
  /\ matched # Idle /\ matched.called
  /\ matched.threshold > 0
  /\ \E first, second \in CountingPairs :
        /\ first[1] < second[1]
        /\ GT(ScoreOf(second), ScoreOf(first))
        /\ matched.result.brand = title(Text(matched.brand_list[second[1]]))
  /\ ~SameScore(matched.result.score, Exact)

(***************************************************************************)
(* The certstream worker: run() of workers/certstream.py.  certstream is   *)
(* the frame of run(): its arguments, the settings it reads, its locals    *)
(* and its position; failures counts the failures since the start or the   *)
(* last successful connection.                                             *)
(***************************************************************************)
MaxFailures == 4

\* what the stream may deliver: a text that is not JSON, JSON that is not an
\* object, a heartbeat, and certificate updates with their all_domains
StreamMessages ==
  << [json |-> FALSE, dict |-> FALSE, message_type |-> "", all_domains |-> <<>>],
     [json |-> TRUE, dict |-> FALSE, message_type |-> "", all_domains |-> <<>>],
     [json |-> TRUE, dict |-> TRUE, message_type |-> "heartbeat", all_domains |-> <<>>],
     [json |-> TRUE, dict |-> TRUE, message_type |-> "certificate_update",
      all_domains |-> <<>>],
     [json |-> TRUE, dict |-> TRUE, message_type |-> "certificate_update",
      all_domains |-> <<"*.zzz.org:443">>],
     [json |-> TRUE, dict |-> TRUE, message_type |-> "certificate_update",
      all_domains |-> <<"awz.net", "OKT4.io">>] >>

\* the dict _build_payload returns for a matched domain
MatchedPayload(domain, found) ==
  [ type |-> "threat_event", source |-> "certstream",
    indicator_type |-> "domain", indicator_value |-> domain,
    category |-> "Typosquatting", brand_target |-> found.brand,
    confidence |-> Min(99, Max(80, (found.score.n * 100) \div found.score.d)) ]

NoPayload == <<>>

\* the loop of _build_payload over all_domains from the k-th domain on, with
\* the default brands, similarity 0.78 and no exact-brand matches
RECURSIVE Matching(_, _)
Matching(all_domains, k) ==
  IF k > Len(all_domains) THEN NoPayload
  ELSE LET domain == lstrip(lower(Text(all_domains[k])), {"*", "."})
           found == _find_brand_match(domain, TextEach(<<"microsoft", "okta">>),
                                      Score(78, 100), FALSE)
       IN IF found.brand = NoBrand THEN Matching(all_domains, k + 1)
          ELSE MatchedPayload(domain, found)

\* _build_payload(message) for a message that is a dict
_build_payload(message) ==
  IF message.message_type # "certificate_update" THEN NoPayload
  ELSE IF message.all_domains = <<>> THEN NoPayload
  ELSE Matching(message.all_domains, 1)

\* the payload of every stream message
PayloadTable ==
  List([i \in DOMAIN StreamMessages |->
          IF StreamMessages[i].dict THEN _build_payload(StreamMessages[i])
          ELSE NoPayload])

InitCertstream ==
  /\ sent = <<>>
  /\ queue = <<>>
  /\ outcome = <<>>
  /\ target = <<>>
  /\ seeded = FALSE
  /\ once = FALSE
  /\ threat_events = {}
  /\ alerts = {}
  /\ ato_events = {}
  /\ dmarc_reports = {}
  /\ pc = [c \in Consumers |-> "brpop"]
  /\ sess = [c \in Consumers |-> NoSess]
  /\ isolation = "read_committed"
  /\ now = 0
  /\ correlated = Idle /\ matched = Idle
  /\ orchestrator = Idle /\ mailbox = Idle
  /\ \E enabled \in BOOLEAN, one \in BOOLEAN, max_events \in 0..MaxMsgs,
        ceiling \in {0, 1, 2, 3, 5} :
       certstream = [pc |-> "start", enabled |-> enabled, once |-> one,
                     max_events |-> max_events, ceiling |-> ceiling,
                     emitted |-> 0, backoff |-> 0, message |-> 0,
                     sleeping |-> 0, failures |-> 0]

\* the two early returns of run()
StartDisabled ==
  /\ certstream.pc = "start"
  /\ ~certstream.enabled
  /\ certstream' = [certstream EXCEPT !.pc = "returned"]
  /\ UNCHANGED <<pipeline, store, now, correlated, matched, orchestrator, mailbox>>

\* queue_client.ping() raises
StartWithoutRedis ==
  /\ certstream.pc = "start"
  /\ certstream.enabled
  /\ certstream' = [certstream EXCEPT !.pc = "returned"]
  /\ UNCHANGED <<pipeline, store, now, correlated, matched, orchestrator, mailbox>>

\* emitted = 0; backoff = 1; while True
Start ==
  /\ certstream.pc = "start"
  /\ certstream.enabled
  /\ certstream' = [certstream EXCEPT !.pc = "connect", !.emitted = 0, !.backoff = 1]
  /\ UNCHANGED <<pipeline, store, now, correlated, matched, orchestrator, mailbox>>

\* except Exception: return under once, else the worker sleeps for backoff
Except(frame) ==
  IF frame.once THEN [frame EXCEPT !.pc = "returned"]
  ELSE [frame EXCEPT !.pc = "sleep", !.sleeping = frame.backoff,
                     !.failures = frame.failures + 1]

\* websockets.connect raises
ConnectFails ==
  /\ certstream.pc = "connect"
  /\ certstream.failures < MaxFailures
  /\ certstream' = Except(certstream)
  /\ UNCHANGED <<pipeline, store, now, correlated, matched, orchestrator, mailbox>>

\* the connection is made: backoff = 1
Connect ==
  /\ certstream.pc = "connect"
  /\ certstream' = [certstream EXCEPT !.pc = "stream", !.backoff = 1,
                                      !.failures = 0, !.message = 0]
  /\ UNCHANGED <<pipeline, store, now, correlated, matched, orchestrator, mailbox>>

\* backoff = min(backoff * 2, settings.certstream_reconnect_max_seconds)
NextBackoff_uncapped(backoff, ceiling) == backoff * 2

NextBackoff(backoff, ceiling) == Min(backoff * 2, ceiling)

\* asyncio.sleep(backoff) is over
Wake ==
  /\ certstream.pc = "sleep"
  /\ certstream' = [certstream EXCEPT
       !.pc = "connect", !.sleeping = 0,
       !.backoff = NextBackoff(certstream.backoff, certstream.ceiling)]
  /\ UNCHANGED <<pipeline, store, now, correlated, matched, orchestrator, mailbox>>

\* json.loads raises JSONDecodeError: continue
ReceiveText(i) ==
  /\ certstream.pc = "stream"
  /\ ~StreamMessages[i].json
  /\ certstream' = [certstream EXCEPT !.message = i]
  /\ UNCHANGED <<pipeline, store, now, correlated, matched, orchestrator, mailbox>>

\* message.get raises AttributeError for JSON that is not an object: the
\* handler of the connection errors catches it
ReceiveNoDict(i) ==
  /\ certstream.pc = "stream"
  /\ StreamMessages[i].json /\ ~StreamMessages[i].dict
  /\ certstream.failures < MaxFailures
  /\ certstream' = Except([certstream EXCEPT !.message = i])
  /\ UNCHANGED <<pipeline, store, now, correlated, matched, orchestrator, mailbox>>

\* _build_payload returns None: continue
ReceiveUnmatched(payloads, i) ==
  /\ certstream.pc = "stream"
  /\ StreamMessages[i].dict
  /\ payloads[i] = NoPayload
  /\ certstream' = [certstream EXCEPT !.message = i]
  /\ UNCHANGED <<pipeline, store, now, correlated, matched, orchestrator, mailbox>>

\* lpush of the payload, emitted += 1, and the two returns of a bounded run
ReceiveMatched(payloads, i) ==
  /\ certstream.pc = "stream"
  /\ StreamMessages[i].dict
  /\ payloads[i] # NoPayload
  /\ Len(sent) < MaxMsgs
  /\ sent' = Append(sent, payloads[i])
  /\ queue' = Append(queue, Len(sent) + 1)
  /\ outcome' = Append(outcome, "queued")
  /\ target' = Append(target, 0)
  /\ certstream' = [certstream EXCEPT
       !.message = i,
       !.emitted = certstream.emitted + 1,
       !.pc = IF certstream.once
                 \/ (certstream.max_events # 0
                     /\ certstream.emitted + 1 >= certstream.max_events)
              THEN "returned" ELSE "stream"]
  /\ UNCHANGED <<store, pc, sess, isolation, seeded, once, now, correlated, matched, orchestrator, mailbox>>

\* the connection breaks while the worker reads from it
StreamFails ==
  /\ certstream.pc = "stream"
  /\ certstream.failures < MaxFailures
  /\ certstream' = Except(certstream)
  /\ UNCHANGED <<pipeline, store, now, correlated, matched, orchestrator, mailbox>>

\* the server closes the connection: async for ends and the loop connects
\* again at once
StreamEnds ==
  /\ certstream.pc = "stream"
  /\ certstream' = [certstream EXCEPT !.pc = "connect"]
  /\ UNCHANGED <<pipeline, store, now, correlated, matched, orchestrator, mailbox>>

SpecCertstream ==
  InitCertstream
    /\ [][ \/ StartDisabled
           \/ StartWithoutRedis
           \/ Start
           \/ ConnectFails
           \/ Connect
           \/ Wake
           \/ \E i \in DOMAIN StreamMessages :
                 \/ ReceiveText(i)
                 \/ ReceiveNoDict(i)
                 \/ ReceiveUnmatched(PayloadTable, i)
                 \/ ReceiveMatched(PayloadTable, i)
           \/ StreamFails
           \/ StreamEnds ]_vars

(***************************************************************************)
(* Properties of the certstream worker.                                    *)
(***************************************************************************)
RECURSIVE Pow2(_)
Pow2(k) == IF k = 0 THEN 1 ELSE 2 * Pow2(k - 1)

Sleeping == certstream # Idle /\ certstream.pc = "sleep"

\* C20 as stated: the k-th consecutive failure since the start or the last
\* successful connection sleeps min(2^(k-1), ceiling), a delay between 1 and
\* the ceiling, whatever the configured ceiling
C20_BackoffDoublesToCeiling ==
  Sleeping =>
    /\ certstream.sleeping = Min(Pow2(certstream.failures - 1), certstream.ceiling)
    /\ 1 <= certstream.sleeping
    /\ certstream.sleeping <= certstream.ceiling

\* C20: under a configured ceiling of at least 1 the first failure after the
\* start or after a successful connection sleeps 1 and the k-th consecutive
\* failure sleeps min(2^(k-1), ceiling), a delay between 1 and the ceiling
C20_BackoffDoublesToPositiveCeiling ==
  Sleeping /\ certstream.ceiling >= 1 =>
    /\ certstream.failures = 1 => certstream.sleeping = 1
    /\ certstream.sleeping = Min(Pow2(certstream.failures - 1), certstream.ceiling)
    /\ 1 <= certstream.sleeping
    /\ certstream.sleeping <= certstream.ceiling

C20_Witness ==
  /\ Sleeping
  /\ certstream.emitted > 0
  /\ certstream.failures >= 3
  /\ certstream.ceiling = 3
  /\ certstream.sleeping = 3


\* a step that reads a stream message of which no payload is made: text that
\* is not JSON, JSON that is not an object, or an object without a match
ReadsUnusable ==
  /\ certstream.pc = "stream"
  /\ certstream'.message # certstream.message
  /\ PayloadTable[certstream'.message] = NoPayload

\* C21: a stream message that is not JSON or not a usable certificate update
\* is dropped: nothing is enqueued, the worker stays on the connection to read
\* the next message, and it does not sleep or reconnect
C21_UnusableMessageDropped ==
  [][ReadsUnusable =>
       /\ sent' = sent /\ queue' = queue
       /\ certstream'.pc = "stream"
       /\ certstream'.sleeping = 0
       /\ certstream'.backoff = certstream.backoff]_vars


\* the messages processor c took off the queue
Handled == {n \in DOMAIN sent : outcome[n] # "queued"}

\* C22: a bounded run exits once its bound is met and never exceeds it: the
\* certstream worker never enqueues more than max_events > 0 events, has
\* enqueued exactly max_events when it returns on that bound, and enqueues at
\* most one event with once; a processor started with once handles at most one
\* queue message and then returns from run
C22_BoundedRunExits ==
  /\ once =>
       /\ Cardinality(Handled) <= 1
       /\ pc[1] # "raised"
       /\ (Handled # {} /\ \A n \in Handled : outcome[n] # "processing")
            => pc[1] = "returned"
  /\ certstream # Idle =>
       /\ certstream.max_events > 0 => certstream.emitted <= certstream.max_events
       /\ certstream.once => certstream.emitted <= 1


(***************************************************************************)
(* execute_orchestrator_actions.  orchestrator holds one call: the         *)
(* settings it runs under (which endpoints and which credentials are set), *)
(* dry_run, the results dict built so far, and posted, the targets         *)
(* client.post was called for, in order, each with whether the call        *)
(* raised.                                                                 *)
(***************************************************************************)
Targets == <<"proofpoint", "takedown", "okta">>

\* results[name] = value
Put(results, name, value) ==
  [key \in DOMAIN results \cup {name} |-> IF key = name THEN value ELSE results[key]]

InitOrchestrator ==
  /\ sent = <<>>
  /\ queue = <<>>
  /\ outcome = <<>>
  /\ target = <<>>
  /\ seeded = FALSE
  /\ once = FALSE
  /\ threat_events = {}
  /\ alerts = {}
  /\ ato_events = {}
  /\ dmarc_reports = {}
  /\ pc = [c \in Consumers |-> "brpop"]
  /\ sess = [c \in Consumers |-> NoSess]
  /\ isolation = "read_committed"
  /\ now = 0
  /\ correlated = Idle /\ matched = Idle /\ certstream = Idle /\ mailbox = Idle
  /\ \E endpoint \in [1..3 -> BOOLEAN], has_credential \in [1..3 -> BOOLEAN],
        dry_run \in BOOLEAN :
       orchestrator = [pc |-> "call", endpoint |-> endpoint,
                       has_credential |-> has_credential, dry_run |-> dry_run,
                       i |-> 1, results |-> <<>>, posted |-> <<>>]

\* if dry_run: the three would_send results, and no client
DryRun ==
  /\ orchestrator.pc = "call"
  /\ orchestrator.dry_run
  /\ orchestrator' =
       [orchestrator EXCEPT
          !.pc = "returned",
          !.results = [name \in {Targets[k] : k \in 1..3} |-> "would_send"]]
  /\ UNCHANGED <<pipeline, store, now, correlated, matched, certstream, mailbox>>

\* with httpx.Client(...) as client: the loop starts at the first target
Live ==
  /\ orchestrator.pc = "call"
  /\ ~orchestrator.dry_run
  /\ orchestrator' = [orchestrator EXCEPT !.pc = "loop"]
  /\ UNCHANGED <<pipeline, store, now, correlated, matched, certstream, mailbox>>

\* one pass of the for loop that makes no call
Skip ==
  /\ orchestrator.pc = "loop"
  /\ orchestrator.i <= 3
  /\ ~orchestrator.endpoint[orchestrator.i] \/ ~orchestrator.has_credential[orchestrator.i]
  /\ orchestrator' =
       [orchestrator EXCEPT
          !.i = @ + 1,
          !.results = Put(@, Targets[orchestrator.i],
                          IF ~orchestrator.endpoint[orchestrator.i]
                            THEN "skipped: missing endpoint"
                            ELSE "skipped: missing credentials")]
  /\ UNCHANGED <<pipeline, store, now, correlated, matched, certstream, mailbox>>

\* a failed target ends the dispatch
AfterPost_stop(frame, raised) ==
  IF raised THEN [frame EXCEPT !.pc = "returned"] ELSE [frame EXCEPT !.i = @ + 1]

\* the try around client.post: either outcome goes on to the next target
AfterPost(frame, raised) == [frame EXCEPT !.i = @ + 1]

\* one pass of the for loop that calls client.post, which returns a response
\* (of any status code) or raises
Post(raised) ==
  /\ orchestrator.pc = "loop"
  /\ orchestrator.i <= 3
  /\ orchestrator.endpoint[orchestrator.i]
  /\ orchestrator.has_credential[orchestrator.i]
  /\ orchestrator' =
       AfterPost([orchestrator EXCEPT
                    !.results = Put(@, Targets[orchestrator.i],
                                    IF raised THEN "failed" ELSE "sent"),
                    !.posted = Append(@, [name |-> Targets[orchestrator.i],
                                          raised |-> raised])],
                 raised)
  /\ UNCHANGED <<pipeline, store, now, correlated, matched, certstream, mailbox>>

\* return {"dry_run": False, "results": results}
Return ==
  /\ orchestrator.pc = "loop"
  /\ orchestrator.i > 3
  /\ orchestrator' = [orchestrator EXCEPT !.pc = "returned"]
  /\ UNCHANGED <<pipeline, store, now, correlated, matched, certstream, mailbox>>

SpecOrchestrator ==
  InitOrchestrator /\ [][DryRun \/ Live \/ Skip \/ (\E raised \in BOOLEAN : Post(raised)) \/ Return]_vars

\* the targets client.post was called for
Posted == {orchestrator.posted[k].name : k \in DOMAIN orchestrator.posted}

\* C23: a live dispatch returns exactly one result for each of proofpoint,
\* takedown and okta; a target without endpoint or credential is skipped and
\* no call is made for it; a target whose call raises is failed, and the
\* targets after it are still attempted; a dry run makes no call
C23_OneResultPerTarget ==
  orchestrator # Idle =>
    /\ Len(orchestrator.posted) = Cardinality(Posted)
    /\ orchestrator.dry_run => orchestrator.posted = <<>>
    /\ orchestrator.pc = "returned" =>
         DOMAIN orchestrator.results = {Targets[k] : k \in 1..3}
    /\ ~orchestrator.dry_run =>
         \A k \in 1..3 :
           /\ Targets[k] \in DOMAIN orchestrator.results =>
                /\ (~orchestrator.endpoint[k] \/ ~orchestrator.has_credential[k]) =>
                     /\ orchestrator.results[Targets[k]] \in
                          {"skipped: missing endpoint", "skipped: missing credentials"}
                     /\ Targets[k] \notin Posted
                /\ (orchestrator.endpoint[k] /\ orchestrator.has_credential[k]) =>
                     \E j \in DOMAIN orchestrator.posted :
                       /\ orchestrator.posted[j].name = Targets[k]
                       /\ orchestrator.results[Targets[k]] =
                            (IF orchestrator.posted[j].raised THEN "failed" ELSE "sent")
           /\ (orchestrator.pc = "returned"
                 /\ orchestrator.endpoint[k] /\ orchestrator.has_credential[k]) =>
                Targets[k] \in Posted

\* a live dispatch has returned: proofpoint's call raised, takedown had no
\* credential and okta was sent
C23_Witness ==
  /\ orchestrator # Idle
  /\ orchestrator.pc = "returned"
  /\ ~orchestrator.dry_run
  /\ orchestrator.results["proofpoint"] = "failed"
  /\ orchestrator.results["takedown"] = "skipped: missing credentials"
  /\ orchestrator.results["okta"] = "sent"


BucketValues(order, brand_key, types) ==
  Values(SelectSeq(order, LAMBDA t : BrandKeyOf(t) = brand_key /\ t.indicator_type \in types),
         "indicator_value")

Occurrences(values, i) == Cardinality({j \in DOMAIN values : values[j] = values[i]})

\* the value that occurs most often, the first encountered of those that do
FirstMostFrequent(values) ==
  values[CHOOSE i \in DOMAIN values :
           /\ \A j \in DOMAIN values : Occurrences(values, j) <= Occurrences(values, i)
           /\ \A j \in 1..(i - 1) : Occurrences(values, j) < Occurrences(values, i)]

ExpectedHint(order, brand_key) ==
  IF BucketValues(order, brand_key, {"domain", "url"}) # <<>>
  THEN Text(FirstMostFrequent(BucketValues(order, brand_key, {"domain", "url"})))
  ELSE IF BucketValues(order, brand_key, {"ip"}) # <<>>
  THEN Text(FirstMostFrequent(BucketValues(order, brand_key, {"ip"})))
  ELSE brand_key

\* C25: the campaign id of every returned campaign is made of its brand key
\* and its indicator hint: the most frequent domain or url value of the
\* bucket if it has one, else its most frequent ip value, else the brand key,
\* the first encountered of equally frequent values
C25_HintIsMostFrequentIndicator ==
  Returned("correlate_campaigns") =>
    \E order \in QueryOrders(WindowThreats) :
      \A i \in DOMAIN correlated.campaigns :
        correlated.campaigns[i].campaign_id =
          _campaign_id(correlated.campaigns[i].brand_key,
                       ExpectedHint(order, correlated.campaigns[i].brand_key))

\* three campaigns: acme, whose second domain a.com occurs twice and is the
\* hint, bolt, which has an ip only, and zeta, which has neither
C25_Witness ==
  /\ Returned("correlate_campaigns")
  /\ {t.id : t \in WindowThreats} = {1, 2, 4, 6, 7}
  /\ Len(correlated.campaigns) = 3
  /\ \E i \in DOMAIN correlated.campaigns :
       correlated.campaigns[i].campaign_id = _campaign_id(<<"a", "c", "m", "e">>, Text("a.com"))
  /\ \E i \in DOMAIN correlated.campaigns :
       correlated.campaigns[i].campaign_id = _campaign_id(<<"b", "o", "l", "t">>, Text("1.2.3.4"))
  /\ \E i \in DOMAIN correlated.campaigns :
       correlated.campaigns[i].campaign_id = _campaign_id(<<"z", "e", "t", "a">>, <<"z", "e", "t", "a">>)


\* the threat messages sent so far that carry the dedupe hash of message n
SameHash(n) == {m \in ThreatMsgs : HashOfMsg(m) = HashOfMsg(n)}

RECURSIVE SumVolume(_)
SumVolume(msgs) ==
  IF msgs = {} THEN 0
  ELSE LET m == CHOOSE x \in msgs : TRUE
       IN InputVolume(m) + SumVolume(msgs \ {m})

RECURSIVE SumAtoHits(_)
SumAtoHits(msgs) ==
  IF msgs = {} THEN 0
  ELSE LET m == CHOOSE x \in msgs : TRUE
       IN InputAtoHits(m) + SumAtoHits(msgs \ {m})

\* what seed_database stored under the hash before the first message
SeededUnder(hash, col) ==
  IF seeded /\ SeedThreat.dedupe_hash = hash THEN SeedThreat[col] ELSE 0

\* a payload that upsert_threat_event can both insert and merge
Storable(m) == WellFormed(m) /\ ~upsert_threat_event({}, Payload(m), now).raise

\* C26: with replicated processors, once every threat message sent for one
\* dedupe hash is finished (all of them storable), the indicator stored
\* under the hash has the sum of their volumes as its volume and the sum of
\* their ato_hits as its ato_hits, on top of what the store held before
C26_NoSightingLost ==
  \A n \in ThreatMsgs :
    (\A m \in SameHash(n) : Storable(m) /\ Finished(m)) =>
      \E r \in threat_events :
        /\ r.dedupe_hash = HashOfMsg(n)
        /\ r.volume = SeededUnder(HashOfMsg(n), "volume") + SumVolume(SameHash(n))
        /\ r.ato_hits = SeededUnder(HashOfMsg(n), "ato_hits") + SumAtoHits(SameHash(n))


\* the processors whose commit of message n is the step
Commits(c, n) ==
  /\ pc[c] = "commit"
  /\ sess[c].msg = n
  /\ outcome[n] = "processing"
  /\ outcome'[n] = "committed"

\* C27: process_payload is all-or-nothing per message: the store changes
\* only in the one step that commits a message, where the indicator written
\* for a threat message and the alert raised for it appear together (no alert
\* is ever visible without its indicator); a message that failed, was not
\* JSON or had an unknown type stays as it ended and never changed the store
C27_AllOrNothing ==
  /\ [](\A a \in alerts : \E r \in threat_events : r.id = a.threat_event_id)
  /\ [][ /\ (store' # store) =>
              \E c \in Consumers : \E n \in DOMAIN sent :
                /\ Commits(c, n)
                /\ \A a \in alerts' \ alerts :
                     /\ a.threat_event_id = target'[n]
                     /\ \E r \in threat_events' : r.id = a.threat_event_id
         /\ \A n \in DOMAIN sent :
              outcome[n] \in {"dropped", "raised", "ignored", "rolled_back"} =>
                outcome'[n] = outcome[n]
         /\ \A n \in DOMAIN sent :
              (outcome'[n] # outcome[n] /\ outcome'[n] # "committed") =>
                store' = store ]_vars

\* one threat message was committed as a new indicator together with its
\* alert, and a message of an unknown type or a failed one left no trace
C27_Witness ==
  /\ ~seeded
  /\ Cardinality(threat_events) = 1
  /\ Cardinality(alerts) = 1
  /\ Len(sent) = 2
  /\ \E n \in ThreatMsgs : Committed(n)
  /\ \E n \in DOMAIN sent : outcome[n] \in {"ignored", "rolled_back"}
  /\ ato_events = {} /\ dmarc_reports = {}


(***************************************************************************)
(* A campaign id handed out by correlate_campaigns and resolved later: the *)
(* processors commit new indicators between the two calls of the API.      *)
(***************************************************************************)
\* the commit of a threat message that upsert_threat_event stored as a new
\* row, while the caller holds the campaigns of its last call
Ingest(row) ==
  /\ Returned("correlate_campaigns")
  /\ row \notin threat_events
  /\ threat_events' = ApplyWrite(threat_events, [op |-> "insert", row |-> row])
  /\ UNCHANGED <<pipeline, alerts, ato_events, dmarc_reports, now, services>>

\* find_campaign with the id of the k-th campaign the caller was given, over
\* a window of hours; issued keeps that campaign
Resolve(k, hours) ==
  /\ Returned("correlate_campaigns")
  /\ k \in DOMAIN correlated.campaigns
  /\ hours >= correlated.hours
  /\ \E threats \in QueryOrders(InWindow(threat_events, "occurred_at", Since(now, hours))) :
       correlated' =
         [ issued |-> correlated.campaigns[k] ] @@
         Call("find_campaign", hours, 500, correlated.campaigns[k].campaign_id,
              find_campaign(threats,
                            InWindow(ato_events, "created_at", Since(now, hours)),
                            InWindow(dmarc_reports, "created_at", Since(now, hours)),
                            correlated.campaigns[k].campaign_id))
  /\ UNCHANGED <<pipeline, store, now, matched, certstream, orchestrator, mailbox>>

\* the store at the first call: any indicators, every ATO signal and report
InitResolve == InitCorrelate /\ ato_events = AtoRows /\ dmarc_reports = DmarcRows

SpecResolve ==
  /\ InitResolve
  /\ [][ \/ \E hours \in 0..MaxHours : Correlate(hours, MaxLimit)
         \/ \E row \in ThreatRows : Ingest(row)
         \/ \E k \in 1..MaxLimit, hours \in 0..MaxHours : Resolve(k, hours) ]_vars

\* C28: a campaign id that correlate_campaigns returned stays resolvable
\* while indicators are only added: a later find_campaign with the id over
\* the same or a wider window raises nothing and returns a campaign with the
\* brand key the id was returned for
C28_IssuedIdStaysResolvable ==
  (Called("find_campaign") /\ "issued" \in DOMAIN correlated) =>
    /\ ~correlated.raise
    /\ correlated.campaigns # <<>>
    /\ correlated.campaigns[1].brand_key = correlated.issued.brand_key


\* C29: the severity of every open alert agrees with the confidence its
\* indicator has now: critical if and only if the confidence is >= 95,
\* otherwise high
C29_SeverityFollowsConfidence ==
  \A a \in alerts : \A r \in threat_events :
    (a.status = "open" /\ a.threat_event_id = r.id) =>
      a.severity = Severity(r.confidence)


(***************************************************************************)
(* The DMARC mailbox worker: workers/dmarc_mailbox.py.  Every polling      *)
(* cycle scans item 1, a file of the drop directory, and then item 2, a    *)
(* message of the IMAP folder.  mailbox holds the settings (drop_dir,      *)
(* imap), once, the number of reports each item parses to, the item i the  *)
(* scan is at, the number j of its reports pushed in this cycle, and       *)
(* processed, the Redis set of markers.                                    *)
(***************************************************************************)
MaxReports == 2

\* f"file:{path}:{mtime_ns}" and f"imap:{host}:{folder}:{uid}"
Marker(i) == IF i = 1 THEN "file:/drop/report.xml:1" ELSE "imap:host:INBOX:1"

InitMailbox ==
  /\ sent = <<>>
  /\ queue = <<>>
  /\ outcome = <<>>
  /\ target = <<>>
  /\ seeded = FALSE
  /\ once = FALSE
  /\ threat_events = {}
  /\ alerts = {}
  /\ ato_events = {}
  /\ dmarc_reports = {}
  /\ pc = [c \in Consumers |-> "brpop"]
  /\ sess = [c \in Consumers |-> NoSess]
  /\ isolation = "read_committed"
  /\ now = 0
  /\ correlated = Idle /\ matched = Idle /\ certstream = Idle
  /\ orchestrator = Idle
  /\ \E one \in BOOLEAN, drop_dir \in BOOLEAN, imap \in BOOLEAN,
        reports \in [1..2 -> 0..MaxReports] :
       mailbox = [pc |-> "start", once |-> one, drop_dir |-> drop_dir,
                  imap |-> imap, reports |-> reports, i |-> 1, j |-> 0,
                  processed |-> {}]

\* run up to its loop: it returns when neither source is configured or Redis
\* does not answer the ping
StartMailbox(ping) ==
  /\ mailbox.pc = "start"
  /\ mailbox' = [mailbox EXCEPT
       !.pc = IF (~mailbox.imap /\ ~mailbox.drop_dir) \/ ~ping
                THEN "returned" ELSE "scan"]
  /\ UNCHANGED <<pipeline, store, now, correlated, matched, certstream, orchestrator>>

\* the scan is at an item of a configured source that has no marker yet
Unprocessed ==
  /\ mailbox.pc = "scan"
  /\ mailbox.i <= 2
  /\ IF mailbox.i = 1 THEN mailbox.drop_dir ELSE mailbox.imap
  /\ Marker(mailbox.i) \notin mailbox.processed

\* the source of the item is not configured (return 0), or sismember finds
\* its marker (continue)
SkipItem ==
  /\ mailbox.pc = "scan"
  /\ mailbox.i <= 2
  /\ ~Unprocessed
  /\ mailbox' = [mailbox EXCEPT !.i = @ + 1]
  /\ UNCHANGED <<pipeline, store, now, correlated, matched, certstream, orchestrator>>

\* _enqueue_reports: lpush of the next report of the item
EnqueueReport ==
  /\ Unprocessed
  /\ mailbox.j < mailbox.reports[mailbox.i]
  /\ Len(sent) < MaxMsgs
  /\ sent' = Append(sent, [type |-> "dmarc_report", item |-> mailbox.i,
                           record |-> mailbox.j + 1])
  /\ queue' = Append(queue, Len(sent) + 1)
  /\ outcome' = Append(outcome, "queued")
  /\ target' = Append(target, 0)
  /\ mailbox' = [mailbox EXCEPT !.j = @ + 1]
  /\ UNCHANGED <<store, pc, sess, isolation, seeded, once, now, correlated, matched,
                 certstream, orchestrator>>

\* sadd of the marker once every report of the item is pushed
MarkProcessed ==
  /\ Unprocessed
  /\ mailbox.j = mailbox.reports[mailbox.i]
  /\ mailbox' = [mailbox EXCEPT
       !.processed = @ \cup {Marker(mailbox.i)}, !.i = @ + 1, !.j = 0]
  /\ UNCHANGED <<pipeline, store, now, correlated, matched, certstream, orchestrator>>

\* an exception while the item is read, parsed, pushed or marked (Redis, the
\* file system or IMAP fails) leaves both scans; run prints it and the cycle
\* ends: break under once, else sleep and scan again
CycleFails ==
  /\ Unprocessed
  /\ mailbox' = IF mailbox.once THEN [mailbox EXCEPT !.pc = "returned"]
                               ELSE [mailbox EXCEPT !.i = 1, !.j = 0]
  /\ UNCHANGED <<pipeline, store, now, correlated, matched, certstream, orchestrator>>

\* both scans are through
CycleCompletes ==
  /\ mailbox.pc = "scan"
  /\ mailbox.i > 2
  /\ mailbox' = IF mailbox.once THEN [mailbox EXCEPT !.pc = "returned"]
                               ELSE [mailbox EXCEPT !.i = 1, !.j = 0]
  /\ UNCHANGED <<pipeline, store, now, correlated, matched, certstream, orchestrator>>

SpecMailbox ==
  InitMailbox
    /\ [][ \/ \E ping \in BOOLEAN : StartMailbox(ping)
           \/ SkipItem
           \/ EnqueueReport
           \/ MarkProcessed
           \/ CycleFails
           \/ CycleCompletes ]_vars

\* C30: every report of one drop-directory file version and of one mailbox
\* message is enqueued at most once over all polling cycles, also when a
\* cycle is aborted by an error after some of the reports were enqueued and
\* before the marker was recorded
C30_ReportsEnqueuedOnce ==
  mailbox # Idle =>
    \A m, n \in DOMAIN sent : sent[m] = sent[n] => m = n

=============================================================================
